---- MODULE Spec2Model ----
(***************************************************************************)
(* FileLair: access-control core of the anonymous file-sharing backend.    *)
(* Every request handler is a sequence of steps, one per awaited call to   *)
(* the metadata store (DynamoDB) or the object store (S3); handlers of     *)
(* concurrent requests interleave at these steps.  Time is epoch seconds.  *)
(***************************************************************************)
EXTENDS Integers, FiniteSets, Sequences, TLC

\* ------------------------------------------------------------ bounds
NumReqs == 2
MaxTokens == 1
MaxTicks == 2
TokenBudget == 2
RateBudget == 2
RateSlots == 1
ExpiryBudget == 2
ExpirySlots == 1
GateBudget == 2
DeleteBudget == 1
OriginBudget == 2
SpoofBudget == 2
SpoofSlots == 1
ValidateBudget == 2
ValidateSlots == 1
DanglingBudget == 2
DanglingSlots == 1
BindingBudget == 2
LockoutTicks == 6
LockoutSlots == 1

\* ------------------------------------------------- program constants
MAX_ATTEMPTS == 5
BLOCK_DURATION == 900
ATTEMPT_WINDOW == 3600
TOKEN_MINUTES == 5
EXPIRATION_HOURS == 48
DOWNLOAD_WINDOW == 60
DOWNLOAD_MAX == 20
INFO_WINDOW == 60
INFO_MAX == 30
SHARE_ID_LEN == 32
SHORT_ID_LEN == 16
TOKEN_LEN == 22
PRESIGNED_URL_EXPIRY == 300

\* ------------------------------------------------------ value sets
Reqs == 1..NumReqs
TokenIds == 1..MaxTokens
FileIds == {"A", "B"}
BadId == "bad"
BadCharsId == "bad chars"
BadToken == 0
BadCharsToken == -1
TokenInputs == TokenIds \cup {BadToken}
Clients == {"c1", "c2"}
NoHeader == "none"
Passwords == {"none", "good", "bad"}
CleanTag == "NO_THREATS_FOUND"
TagValues == {CleanTag, "THREATS_FOUND"}
NoTag == "none"
GenKinds == {"download", "fileinfo"}

VARIABLES
    now,      \* Date.now() / 1000
    ticks,    \* number of time steps taken so far
    files,    \* metadata table: file records by shareId
    objects,  \* object store: object (and its scan tag) by shareId of its key
    tokens,   \* metadata table: TOKEN#<tokenId> items
    rl,       \* metadata table: RATELIMIT#<shareId>#<ip> items
    gen,      \* metadata table: download:<ip> / fileinfo:<ip> items
    req,      \* the handler invocations in flight, one per slot
    last,     \* the invocation that returned last: its kind, response and notes
    minted,   \* share ids generateShareId has returned
    gone,     \* share ids for which a delete request has reported success
    events,   \* objects for which an "Object Tags Added" event was emitted
    nextTok,  \* next token generateDownloadToken returns
    consumed, \* per token: how often validateAndConsumeToken returned valid
    consumedAt, \* per token: when it was marked used (-1: never)
    handleAt, \* per token: when a transfer handle was returned from it (-1: never)
    handles   \* per file: number of transfer handles returned

vars == <<now, ticks, files, objects, tokens, rl, gen, req, last, minted, gone, events,
          nextTok, consumed, consumedAt, handleAt, handles>>

ghost == <<events, consumed, consumedAt, handleAt, handles>>

store == <<files, objects, tokens, rl, gen>>

\* --------------------------------------------------- absent items
NoFile == [exists |-> FALSE, full |-> FALSE, uploadedAt |-> 0, expiresAt |-> 0,
           hasPw |-> FALSE, downloadCount |-> 0, scanStatus |-> "absent",
           scanResult |-> NoTag]
NoObject == [exists |-> FALSE, tag |-> NoTag, put |-> FALSE]
NoToken == [exists |-> FALSE, sid |-> "A", createdAt |-> 0, expiresAt |-> 0,
            used |-> FALSE, usedAt |-> 0, ip |-> "c1"]
NoRl == [exists |-> FALSE, hasCount |-> FALSE, attempts |-> 0, lastAttempt |-> 0,
         expiresAt |-> 0, hasBlock |-> FALSE, blockedUntil |-> 0]
NoGen == [exists |-> FALSE, count |-> 0, windowStart |-> 0, expiresAt |-> 0]
IdleReq == [kind |-> "none", pc |-> "idle", sid |-> "A", src |-> "c1", ip |-> "c1",
            pw |-> "none", tok |-> 0, t |-> 0, hasPw |-> FALSE, full |-> FALSE,
            resp |-> "none", rlOk |-> FALSE, rlErr |-> FALSE, genErr |-> FALSE,
            ver |-> "none", saved |-> FALSE,
            pre |-> "nofile", late |-> FALSE, tag |-> NoTag]

\* --------------------------------------------------- pure functions
IdLen(s) == IF s = BadId THEN 7 ELSE SHARE_ID_LEN
IdUrlSafe(s) == s # BadCharsId

\* (mutation: every share id passes)
AnyShareId(s) == TRUE

isValidShareId(s) ==
    /\ IdLen(s) \in {SHARE_ID_LEN, SHORT_ID_LEN}
    /\ IdUrlSafe(s)

TokLen(t) == IF t = BadToken THEN 5 ELSE TOKEN_LEN

TokUrlSafe(t) == t # BadCharsToken

isValidDownloadToken(t) ==
    /\ TokLen(t) = TOKEN_LEN
    /\ TokUrlSafe(t)

clientIpOf(src, xff) == IF xff # NoHeader THEN xff ELSE src

verifyPassword(pw) == pw = "good"

\* ------------------------------------------------- request helpers
Idle(r) == req[r].pc = "idle"

\* Invocations are interchangeable: a new one takes the lowest free slot.
FreeSlot(r) == Idle(r) /\ \A q \in Reqs : q < r => ~Idle(q)

\* What is kept of an invocation that has returned.
Summary(rq) ==
    [kind |-> rq.kind, resp |-> rq.resp, pre |-> rq.pre, rlOk |-> rq.rlOk,
     rlErr |-> rq.rlErr, genErr |-> rq.genErr, ver |-> rq.ver,
     saved |-> rq.saved, late |-> rq.late]

NoSummary == Summary(IdleReq)

\* Invocation r continues as rq, or returns when rq has ended.
Commit(r, rq) ==
    IF rq.pc = "done"
    THEN /\ req' = [req EXCEPT ![r] = IdleReq]
         /\ last' = Summary(rq)
    ELSE /\ req' = [req EXCEPT ![r] = rq]
         /\ last' = last

Finish(r, code) ==
    [req[r] EXCEPT !.pc = "done", !.resp = code, !.t = 0, !.hasPw = FALSE,
                   !.full = FALSE, !.pw = "none"]

\* What the metadata table holds for share id s when a request arrives:
\* "nofile", "expired", or the record's scanStatus.
StateOf(s) ==
    IF s \notin FileIds \/ ~files[s].exists THEN "nofile"
    ELSE IF files[s].full /\ files[s].expiresAt < now THEN "expired"
    ELSE files[s].scanStatus

Begin(kind, pc, s, src, ip, pw, tok, pre) ==
    [IdleReq EXCEPT !.kind = kind, !.pc = pc, !.sid = s, !.src = src, !.ip = ip,
                    !.pw = pw, !.tok = tok, !.pre = pre, !.late = s \in gone]

Rejected(kind, code, s, src, ip, tok, pre) ==
    [IdleReq EXCEPT !.kind = kind, !.pc = "done", !.resp = code, !.sid = s,
                    !.src = src, !.ip = ip, !.tok = tok, !.pre = pre,
                    !.late = s \in gone]

Init ==
    /\ now = 0
    /\ ticks = 0
    /\ files = [s \in FileIds |-> NoFile]
    /\ objects = [s \in FileIds |-> NoObject]
    /\ tokens = [k \in TokenIds |-> NoToken]
    /\ rl = [p \in FileIds \X Clients |-> NoRl]
    /\ gen = [p \in GenKinds \X Clients |-> NoGen]
    /\ req = [r \in Reqs |-> IdleReq]
    /\ last = NoSummary
    /\ minted = {}
    /\ gone = {}
    /\ events = {}
    /\ nextTok = 1
    /\ consumed = [k \in TokenIds |-> 0]
    /\ consumedAt = [k \in TokenIds |-> -1]
    /\ handleAt = [k \in TokenIds |-> -1]
    /\ handles = [s \in FileIds |-> 0]

\* ---------------------------------------------------------- upload
\* upload.ts handler: a fresh share id, then saveFileRecord.
Upload(s, withPw) ==
    /\ s \in FileIds \ minted
    /\ minted' = minted \cup {s}
    /\ files' = [files EXCEPT ![s] =
            [exists |-> TRUE, full |-> TRUE, uploadedAt |-> now,
             expiresAt |-> now + EXPIRATION_HOURS * 3600, hasPw |-> withPw,
             downloadCount |-> 0, scanStatus |-> "absent", scanResult |-> NoTag]]
    /\ UNCHANGED <<now, ticks, objects, tokens, rl, gen, req, last, gone, nextTok,
                   ghost>>

\* The uploader PUTs the object through the presigned upload URL.
ClientPut(s) ==
    /\ s \in minted
    /\ files[s].exists /\ files[s].full
    /\ ~objects[s].put
    /\ now <= files[s].uploadedAt + PRESIGNED_URL_EXPIRY
    /\ objects' = [objects EXCEPT ![s] =
            [exists |-> TRUE, tag |-> NoTag, put |-> TRUE]]
    /\ UNCHANGED <<now, ticks, files, tokens, rl, gen, req, last, minted, gone, nextTok, ghost>>

\* ------------------------------------------- generic rate limiter
GenKey(r) ==
    IF req[r].kind = "info" THEN <<"fileinfo", req[r].src>>
    ELSE <<"download", req[r].ip>>

GenWindow(r) == IF req[r].kind = "info" THEN INFO_WINDOW ELSE DOWNLOAD_WINDOW

GenMax(r) == IF req[r].kind = "info" THEN INFO_MAX ELSE DOWNLOAD_MAX

\* What the handler answers when checkRateLimitGeneric returns false.
GenDenied(r) ==
    IF req[r].kind = "info" THEN "VALIDATION_ERROR" ELSE "RATE_LIMITED"

\* checkRateLimitGeneric, the catch block: "Fail closed", return false.
GenericOnError(r) == [Finish(r, GenDenied(r)) EXCEPT !.genErr = TRUE]

\* checkRateLimitGeneric: the GetCommand and the decision on the item read.
GenericGet(r, ok) ==
    /\ req[r].pc = "gen_get"
    /\ LET rec == gen[GenKey(r)]
       IN Commit(r,
            IF ~ok THEN GenericOnError(r)
            ELSE IF ~rec.exists \/ rec.windowStart < now - GenWindow(r)
                 THEN [req[r] EXCEPT !.pc = "gen_put", !.t = now]
            ELSE IF rec.count >= GenMax(r) THEN Finish(r, GenDenied(r))
            ELSE [req[r] EXCEPT !.pc = "gen_inc", !.t = now])
    /\ UNCHANGED <<now, ticks, store, minted, gone, nextTok, ghost>>

\* checkRateLimitGeneric: the PutCommand that opens a new window.
GenericPut(r, ok) ==
    /\ req[r].pc = "gen_put"
    /\ IF ok
       THEN /\ gen' = [gen EXCEPT ![GenKey(r)] =
                    [exists |-> TRUE, count |-> 1, windowStart |-> req[r].t,
                     expiresAt |-> req[r].t + GenWindow(r)]]
            /\ Commit(r, [req[r] EXCEPT !.pc = "get_file", !.t = 0])
       ELSE /\ gen' = gen
            /\ Commit(r, GenericOnError(r))
    /\ UNCHANGED <<now, ticks, files, objects, tokens, rl, minted, gone, nextTok, ghost>>

\* checkRateLimitGeneric: the UpdateCommand "SET count = count + 1"; it is
\* rejected by the store when the item (and so the attribute) is gone.
GenericInc(r, ok) ==
    /\ req[r].pc = "gen_inc"
    /\ IF ok /\ gen[GenKey(r)].exists
       THEN /\ gen' = [gen EXCEPT ![GenKey(r)].count = @ + 1]
            /\ Commit(r, [req[r] EXCEPT !.pc = "get_file", !.t = 0])
       ELSE /\ gen' = gen
            /\ Commit(r, GenericOnError(r))
    /\ UNCHANGED <<now, ticks, files, objects, tokens, rl, minted, gone, nextTok, ghost>>

\* ------------------------------------------------ request arrival
InFlight(kind) == Cardinality({r \in Reqs : req[r].kind = kind /\ ~Idle(r)})

\* download.ts handler, lines 28-52: no token parameter.
DownloadStart(r, s, src, xff, pw) ==
    /\ FreeSlot(r)
    /\ nextTok + InFlight("dl1") <= MaxTokens
    /\ LET ip == clientIpOf(src, xff)
       IN Commit(r,
            IF ~isValidShareId(s)
            THEN Rejected("dl1", "VALIDATION_ERROR", s, src, ip, 0, StateOf(s))
            ELSE Begin("dl1", "gen_get", s, src, ip, pw, 0, StateOf(s)))
    /\ UNCHANGED <<now, ticks, store, minted, gone, nextTok, ghost>>

\* fileInfo.ts fileInfoHandler, lines 10-24.
InfoStart(r, s, src) ==
    /\ FreeSlot(r)
    /\ Commit(r,
            IF ~isValidShareId(s)
            THEN Rejected("info", "VALIDATION_ERROR", s, src, src, 0, StateOf(s))
            ELSE Begin("info", "gen_get", s, src, src, "none", 0, StateOf(s)))
    /\ UNCHANGED <<now, ticks, store, minted, gone, nextTok, ghost>>

\* delete.ts deleteHandler, lines 17-46.
DeleteStart(r, s, src, xff, pw) ==
    /\ FreeSlot(r)
    /\ LET ip == clientIpOf(src, xff)
       IN Commit(r,
            IF ~isValidShareId(s)
            THEN Rejected("del", "VALIDATION_ERROR", s, src, ip, 0, StateOf(s))
            ELSE Begin("del", "get_file", s, src, ip, pw, 0, StateOf(s)))
    /\ UNCHANGED <<now, ticks, store, minted, gone, nextTok, ghost>>

\* State of the file a token was issued for, when the token is presented.
StateOfToken(k) ==
    IF k \in TokenIds /\ tokens[k].exists THEN StateOf(tokens[k].sid) ELSE "nofile"

\* download.ts handleTokenDownload, lines 163-178: a token parameter is present.
RedeemStart(r, k, s, src, xff) ==
    /\ FreeSlot(r)
    /\ LET ip == clientIpOf(src, xff)
       IN Commit(r,
            IF ~isValidDownloadToken(k)
            THEN Rejected("dl2", "VALIDATION_ERROR", s, src, ip, k, StateOfToken(k))
            ELSE Begin("dl2", "tok_get", s, src, ip, "none", k, StateOfToken(k)))
    /\ UNCHANGED <<now, ticks, store, minted, gone, nextTok, ghost>>

\* -------------------------------------------- file record lookup
\* (mutation: the password gate is skipped)
Unprotected(rec) == FALSE

\* "if (fileRecord.passwordHash)": the record demands a password.
Protected(rec) == rec.hasPw

\* (mutation: a missing password is passed on to the rate limiter and the
\* verifier like a wrong one)
GetFileNoPrompt(r, ok) ==
    /\ req[r].pc = "get_file"
    /\ LET rec == files[req[r].sid]
           kind == req[r].kind
       IN Commit(r,
            IF ~ok THEN Finish(r, "STORAGE_ERROR")
            ELSE IF ~rec.exists THEN Finish(r, "FILE_NOT_FOUND")
            ELSE IF rec.full /\ rec.expiresAt < now THEN Finish(r, "FILE_NOT_FOUND")
            ELSE IF kind = "info" THEN Finish(r, "OK")
            ELSE IF Protected(rec)
                 THEN [req[r] EXCEPT !.pc = "rl_get", !.hasPw = TRUE, !.full = rec.full]
            ELSE [req[r] EXCEPT !.pc = IF kind = "dl1" THEN "mk_token" ELSE "del_obj",
                                !.full = rec.full])
    /\ UNCHANGED <<now, ticks, store, minted, gone, nextTok, ghost>>

\* getFileRecord and the checks that follow it in download.ts 69-100,
\* fileInfo.ts 36-58 and delete.ts 49-80.
GetFile(r, ok) ==
    /\ req[r].pc = "get_file"
    /\ LET rec == files[req[r].sid]
           kind == req[r].kind
       IN Commit(r,
            IF ~ok THEN Finish(r, "STORAGE_ERROR")
            ELSE IF ~rec.exists THEN Finish(r, "FILE_NOT_FOUND")
            ELSE IF rec.full /\ rec.expiresAt < now THEN Finish(r, "FILE_NOT_FOUND")
            ELSE IF kind = "info" THEN Finish(r, "OK")
            ELSE IF Protected(rec) /\ req[r].pw = "none"
                 THEN Finish(r, "INVALID_PASSWORD")
            ELSE IF Protected(rec)
                 THEN [req[r] EXCEPT !.pc = "rl_get", !.hasPw = TRUE, !.full = rec.full]
            ELSE [req[r] EXCEPT !.pc = IF kind = "dl1" THEN "mk_token" ELSE "del_obj",
                                !.full = rec.full])
    /\ UNCHANGED <<now, ticks, store, minted, gone, nextTok, ghost>>

\* ------------------------------------------ password rate limiter
\* (mutation: one record per file, whatever the client address)
RlKeyPerFile(r) == <<req[r].sid, "c1">>

RlKey(r) == <<req[r].sid, req[r].ip>>

AfterPassword(r) == IF req[r].kind = "dl1" THEN "mk_token" ELSE "del_obj"

\* (mutation: the lockout starts one failed attempt late)
RateDecisionLate(rec, t) ==
    IF ~rec.exists THEN "allow"
    ELSE IF rec.hasBlock /\ rec.blockedUntil > t THEN "deny"
    ELSE IF rec.hasCount /\ rec.lastAttempt < t - ATTEMPT_WINDOW THEN "allow"
    ELSE IF rec.hasCount /\ rec.attempts > MAX_ATTEMPTS THEN "block"
    ELSE "allow"

\* The decision checkRateLimit takes on the item it read at time t:
\* "allow", "deny" (blocked), or "block" (the lockout is to be written).
RateDecision(rec, t) ==
    IF ~rec.exists THEN "allow"
    ELSE IF rec.hasBlock /\ rec.blockedUntil > t THEN "deny"
    ELSE IF rec.hasCount /\ rec.lastAttempt < t - ATTEMPT_WINDOW THEN "allow"
    ELSE IF rec.hasCount /\ rec.attempts >= MAX_ATTEMPTS THEN "block"
    ELSE "allow"

\* remainingAttempts of an allowed answer (MAX_ATTEMPTS - attempts is NaN for
\* an item without attempts; modelled as -1).
Remaining(rec, t) ==
    IF ~rec.exists THEN MAX_ATTEMPTS
    ELSE IF rec.hasCount /\ rec.lastAttempt < t - ATTEMPT_WINDOW THEN MAX_ATTEMPTS
    ELSE IF rec.hasCount THEN MAX_ATTEMPTS - rec.attempts
    ELSE -1

\* (mutation: the catch block answers allowed: true)
RateFailOpen(r) == [req[r] EXCEPT !.pc = "verify", !.rlOk = TRUE, !.rlErr = TRUE]

\* checkRateLimit, the catch block: "Fail closed", allowed: false.
RateOnError(r) == [Finish(r, "RATE_LIMITED") EXCEPT !.rlErr = TRUE]

\* checkRateLimit: the GetCommand and the decision on the item read.
RLGet(r, ok) ==
    /\ req[r].pc = "rl_get"
    /\ LET d == RateDecision(rl[RlKey(r)], now)
       IN Commit(r,
            IF ~ok THEN RateOnError(r)
            ELSE IF d = "deny" THEN Finish(r, "RATE_LIMITED")
            ELSE IF d = "block" THEN [req[r] EXCEPT !.pc = "rl_block", !.t = now]
            ELSE [req[r] EXCEPT !.pc = "verify", !.rlOk = TRUE])
    /\ UNCHANGED <<now, ticks, store, minted, gone, nextTok, ghost>>

\* (mutation: the lockout write also renews the attempt window)
BlockedRenews(rec, until) ==
    [rec EXCEPT !.exists = TRUE, !.hasBlock = TRUE, !.blockedUntil = until,
                !.hasCount = TRUE, !.lastAttempt = until]

\* The item after "SET blockedUntil = :blockedUntil" (an upsert).
Blocked(rec, until) ==
    [rec EXCEPT !.exists = TRUE, !.hasBlock = TRUE, !.blockedUntil = until]

\* checkRateLimit: the UpdateCommand that writes the lockout.
RLBlock(r, ok) ==
    /\ req[r].pc = "rl_block"
    /\ rl' = IF ok
             THEN [rl EXCEPT ![RlKey(r)] = Blocked(@, req[r].t + BLOCK_DURATION)]
             ELSE rl
    /\ Commit(r,
            IF ok THEN Finish(r, "RATE_LIMITED") ELSE RateOnError(r))
    /\ UNCHANGED <<now, ticks, files, objects, tokens, gen, minted, gone, nextTok, ghost>>

\* (mutation: the reset keeps a lockout in force)
ResetKeepsBlock(t) ==
    [exists |-> TRUE, hasCount |-> TRUE, attempts |-> 0, lastAttempt |-> t,
     expiresAt |-> t + ATTEMPT_WINDOW, hasBlock |-> TRUE,
     blockedUntil |-> t + BLOCK_DURATION]

\* recordAttempt(success = true): the PutCommand replaces the item.
ResetItem(t) ==
    [exists |-> TRUE, hasCount |-> TRUE, attempts |-> 0, lastAttempt |-> t,
     expiresAt |-> t + ATTEMPT_WINDOW, hasBlock |-> FALSE, blockedUntil |-> 0]

\* recordAttempt(success = false): the UpdateCommand
\* "SET attempts = if_not_exists(attempts, 0) + 1, lastAttempt, expiresAt".
FailedItem(rec, t) ==
    [rec EXCEPT !.exists = TRUE, !.hasCount = TRUE,
                !.attempts = (IF rec.hasCount THEN rec.attempts ELSE 0) + 1,
                !.lastAttempt = t, !.expiresAt = t + ATTEMPT_WINDOW]

\* verifyPassword, then recordAttempt (a store error in it is swallowed;
\* saved tells whether the store accepted the write).
VerifyRecord(r, ok) ==
    /\ req[r].pc = "verify"
    /\ LET valid == verifyPassword(req[r].pw)
       IN /\ rl' = IF ~ok THEN rl
                   ELSE IF valid THEN [rl EXCEPT ![RlKey(r)] = ResetItem(now)]
                   ELSE [rl EXCEPT ![RlKey(r)] = FailedItem(@, now)]
          /\ Commit(r,
                IF valid
                THEN [req[r] EXCEPT !.pc = AfterPassword(r), !.ver = "valid",
                                    !.saved = ok]
                ELSE [Finish(r, "INVALID_PASSWORD") EXCEPT !.ver = "invalid",
                                                           !.saved = ok])
    /\ UNCHANGED <<now, ticks, files, objects, tokens, gen, minted, gone, nextTok, ghost>>

\* ------------------------------------------------ download tokens
\* createDownloadToken: the item put for a new token.
NewToken(s, ip, t) ==
    [exists |-> TRUE, sid |-> s, createdAt |-> t,
     expiresAt |-> t + TOKEN_MINUTES * 60, used |-> FALSE, usedAt |-> 0, ip |-> ip]

\* (mutation: the two round trips are collapsed, step 1 hands out the URL)
CreateTokenAndUrl(r, ok) ==
    /\ req[r].pc = "mk_token"
    /\ nextTok <= MaxTokens
    /\ IF ok
       THEN /\ tokens' = [tokens EXCEPT ![nextTok] =
                    NewToken(req[r].sid, req[r].ip, now)]
            /\ nextTok' = nextTok + 1
            /\ handles' = [handles EXCEPT ![req[r].sid] = @ + 1]
            /\ Commit(r, [Finish(r, "OK") EXCEPT !.tok = nextTok])
       ELSE /\ UNCHANGED <<tokens, nextTok, handles>>
            /\ Commit(r, Finish(r, "STORAGE_ERROR"))
    /\ UNCHANGED <<now, ticks, files, objects, rl, gen, minted, gone, events, consumed,
                   consumedAt, handleAt>>

\* download.ts 129-143: generateDownloadToken and createDownloadToken.
CreateToken(r, ok) ==
    /\ req[r].pc = "mk_token"
    /\ nextTok <= MaxTokens
    /\ IF ok
       THEN /\ tokens' = [tokens EXCEPT ![nextTok] =
                    NewToken(req[r].sid, req[r].ip, now)]
            /\ nextTok' = nextTok + 1
            /\ Commit(r, [Finish(r, "OK") EXCEPT !.tok = nextTok])
       ELSE /\ UNCHANGED <<tokens, nextTok>>
            /\ Commit(r, Finish(r, "STORAGE_ERROR"))
    /\ UNCHANGED <<now, ticks, files, objects, rl, gen, minted, gone, ghost>>

\* The checks of validateAndConsumeToken on the item it read at time t.
TokenCheck(tk, ip, t) ==
    IF ~tk.exists THEN "Invalid download token"
    ELSE IF tk.used THEN "Download token has already been used"
    ELSE IF tk.expiresAt < t THEN "Download token has expired"
    ELSE IF tk.ip # ip THEN "Invalid request origin"
    ELSE "ok"

\* (mutation: the token is marked used before it is checked)
TokGetConsumesFirst(r, ok) ==
    /\ req[r].pc = "tok_get"
    /\ tokens' = IF ok /\ tokens[req[r].tok].exists
                 THEN [tokens EXCEPT ![req[r].tok].used = TRUE]
                 ELSE tokens
    /\ Commit(r,
            IF ~ok THEN Finish(r, "STORAGE_ERROR")
            ELSE IF TokenCheck(tokens[req[r].tok], req[r].ip, now) # "ok"
                 THEN Finish(r, "VALIDATION_ERROR")
            ELSE [req[r] EXCEPT !.pc = "tok_upd", !.t = now])
    /\ UNCHANGED <<now, ticks, files, objects, rl, gen, minted, gone, nextTok, ghost>>

\* validateAndConsumeToken: the GetCommand and the checks on the item read.
TokGet(r, ok) ==
    /\ req[r].pc = "tok_get"
    /\ Commit(r,
            IF ~ok THEN Finish(r, "STORAGE_ERROR")
            ELSE IF TokenCheck(tokens[req[r].tok], req[r].ip, now) # "ok"
                 THEN Finish(r, "VALIDATION_ERROR")
            ELSE [req[r] EXCEPT !.pc = "tok_upd", !.t = now])
    /\ UNCHANGED <<now, ticks, store, minted, gone, nextTok, ghost>>

\* (mutation: the update carries no ConditionExpression)
ConsumeUnconditional(tk) == tk.exists

\* ConditionExpression "used = :false" of the consuming UpdateCommand.
ConsumeCondition(tk) == tk.exists /\ ~tk.used

\* (mutation: the file is looked up under the share id of the request path)
TokUpdatePathFile(r, ok) ==
    /\ req[r].pc = "tok_upd"
    /\ LET k == req[r].tok
       IN IF ok /\ ConsumeCondition(tokens[k])
          THEN /\ tokens' = [tokens EXCEPT ![k].used = TRUE, ![k].usedAt = req[r].t]
               /\ consumed' = [consumed EXCEPT ![k] = @ + 1]
               /\ consumedAt' = [consumedAt EXCEPT ![k] = now]
               /\ Commit(r, [req[r] EXCEPT !.pc = "get_file2", !.t = 0])
          ELSE /\ UNCHANGED <<tokens, consumed, consumedAt>>
               /\ Commit(r,
                        Finish(r, IF ok THEN "VALIDATION_ERROR" ELSE "STORAGE_ERROR"))
    /\ UNCHANGED <<now, ticks, files, objects, rl, gen, minted, gone, events, nextTok,
                   handleAt, handles>>

\* validateAndConsumeToken: the conditional UpdateCommand.
TokUpdate(r, ok) ==
    /\ req[r].pc = "tok_upd"
    /\ LET k == req[r].tok
       IN IF ok /\ ConsumeCondition(tokens[k])
          THEN /\ tokens' = [tokens EXCEPT ![k].used = TRUE, ![k].usedAt = req[r].t]
               /\ consumed' = [consumed EXCEPT ![k] = @ + 1]
               /\ consumedAt' = [consumedAt EXCEPT ![k] = now]
               /\ Commit(r,
                        [req[r] EXCEPT !.pc = "get_file2", !.sid = tokens[k].sid,
                                       !.t = 0])
          ELSE /\ UNCHANGED <<tokens, consumed, consumedAt>>
               /\ Commit(r,
                        Finish(r, IF ok THEN "VALIDATION_ERROR" ELSE "STORAGE_ERROR"))
    /\ UNCHANGED <<now, ticks, files, objects, rl, gen, minted, gone, events, nextTok,
                   handleAt, handles>>

\* download.ts 192-207: getFileRecord, then getPresignedDownloadUrl (which
\* throws on a record without s3Key and originalFilename).
GetFile2(r, ok) ==
    /\ req[r].pc = "get_file2"
    /\ LET rec == files[req[r].sid]
       IN Commit(r,
            IF ~ok THEN Finish(r, "STORAGE_ERROR")
            ELSE IF ~rec.exists THEN Finish(r, "FILE_NOT_FOUND")
            ELSE IF ~rec.full THEN Finish(r, "STORAGE_ERROR")
            ELSE [req[r] EXCEPT !.pc = "inc_count"])
    /\ UNCHANGED <<now, ticks, store, minted, gone, nextTok, ghost>>

\* (mutation: the counter is incremented twice)
IncrementedTwice(rec) == [rec EXCEPT !.downloadCount = @ + 2]

\* The record after incrementDownloadCount.
Incremented(rec) == [rec EXCEPT !.downloadCount = @ + 1]

\* incrementDownloadCount ("SET downloadCount = downloadCount + 1", rejected
\* when the attribute is gone) and the response with the downloadUrl.
IncCount(r, ok) ==
    /\ req[r].pc = "inc_count"
    /\ LET s == req[r].sid
       IN IF ok /\ files[s].exists /\ files[s].full
          THEN /\ files' = [files EXCEPT ![s] = Incremented(@)]
               /\ handleAt' = [handleAt EXCEPT ![req[r].tok] = now]
               /\ handles' = [handles EXCEPT ![s] = @ + 1]
               /\ Commit(r, Finish(r, "OK"))
          ELSE /\ UNCHANGED <<files, handleAt, handles>>
               /\ Commit(r, Finish(r, "STORAGE_ERROR"))
    /\ UNCHANGED <<now, ticks, objects, tokens, rl, gen, minted, gone, events, nextTok,
                   consumed, consumedAt>>

\* ---------------------------------------------------------- delete
\* (mutation: a failed object deletion is ignored and the record is deleted)
DelObjectCarriesOn(r, ok) ==
    /\ req[r].pc = "del_obj"
    /\ objects' = IF ok /\ req[r].full
                  THEN [objects EXCEPT ![req[r].sid].exists = FALSE,
                                       ![req[r].sid].tag = NoTag]
                  ELSE objects
    /\ Commit(r, [req[r] EXCEPT !.pc = "del_rec"])
    /\ UNCHANGED <<now, ticks, files, tokens, rl, gen, minted, gone, nextTok, ghost>>

\* delete.ts 112-114: deleteFile(fileRecord.s3Key).
DelObject(r, ok) ==
    /\ req[r].pc = "del_obj"
    /\ IF ok /\ req[r].full
       THEN /\ objects' = [objects EXCEPT ![req[r].sid].exists = FALSE,
                                          ![req[r].sid].tag = NoTag]
            /\ Commit(r, [req[r] EXCEPT !.pc = "del_rec"])
       ELSE /\ objects' = objects
            /\ Commit(r, Finish(r, "STORAGE_ERROR"))
    /\ UNCHANGED <<now, ticks, files, tokens, rl, gen, minted, gone, nextTok, ghost>>

\* (mutation: success is reported whether or not the record was deleted)
DelRecordAlwaysOk(r, ok) ==
    /\ req[r].pc = "del_rec"
    /\ files' = IF ok THEN [files EXCEPT ![req[r].sid] = NoFile] ELSE files
    /\ gone' = gone \cup {req[r].sid}
    /\ Commit(r, Finish(r, "OK"))
    /\ UNCHANGED <<now, ticks, objects, tokens, rl, gen, minted, nextTok, ghost>>

\* delete.ts 116-134: deleteFileRecord, then the success response.
DelRecord(r, ok) ==
    /\ req[r].pc = "del_rec"
    /\ files' = IF ok THEN [files EXCEPT ![req[r].sid] = NoFile] ELSE files
    /\ gone' = IF ok THEN gone \cup {req[r].sid} ELSE gone
    /\ Commit(r, Finish(r, IF ok THEN "OK" ELSE "STORAGE_ERROR"))
    /\ UNCHANGED <<now, ticks, objects, tokens, rl, gen, minted, nextTok, ghost>>

\* ------------------------------------------- scan result processor
\* The malware scanner tags a stored object; the tag event is emitted.
ScannerTag(s, v) ==
    /\ objects[s].exists /\ objects[s].tag = NoTag
    /\ objects' = [objects EXCEPT ![s].tag = v]
    /\ events' = events \cup {s}
    /\ UNCHANGED <<now, ticks, files, tokens, rl, gen, req, last, minted, gone, nextTok,
                   consumed, consumedAt, handleAt, handles>>

\* scanResult.ts handler, lines 38-65, for the key of object s.
ScanStart(r, s) ==
    /\ FreeSlot(r)
    /\ s \in events
    /\ Commit(r,
            Begin("scan", "scan_tags", s, "c1", "c1", "none", 0, StateOf(s)))
    /\ UNCHANGED <<now, ticks, store, minted, gone, nextTok, ghost>>

\* scanResult.ts 49-65: the object key is split on "/", a key of fewer than
\* five segments is dropped, the fourth segment is taken as the share id and
\* dropped unless its length is 32.  A key is given by its number of
\* segments and its fourth segment.
ScanKeyAccepted(k) == ~(k.parts < 5) /\ ~(IdLen(k.sid) # SHARE_ID_LEN)

\* scanResult.ts handler, lines 38-65, for an event carrying key k.
ScanEvent(r, k) ==
    /\ FreeSlot(r)
    /\ Commit(r,
            IF ScanKeyAccepted(k)
            THEN Begin("scan", "scan_tags", k.sid, "c1", "c1", "none", 0, StateOf(k.sid))
            ELSE Rejected("scan", "OK", k.sid, "c1", "c1", 0, StateOf(k.sid)))
    /\ UNCHANGED <<now, ticks, store, minted, gone, nextTok, ghost>>

\* (mutation: on a threat tag the object is deleted before the record is
\* marked)
ScanGetTagsDeleteFirst(r, ok) ==
    /\ req[r].pc = "scan_tags"
    /\ LET o == objects[req[r].sid]
       IN Commit(r,
            IF ~ok \/ ~o.exists THEN [req[r] EXCEPT !.pc = "scan_err"]
            ELSE IF o.tag = NoTag THEN Finish(r, "OK")
            ELSE IF o.tag = CleanTag THEN [req[r] EXCEPT !.pc = "scan_clean"]
            ELSE [req[r] EXCEPT !.pc = "scan_del", !.tag = o.tag])
    /\ UNCHANGED <<now, ticks, store, minted, gone, nextTok, ghost>>

\* (mutation: only a detected threat is treated as infected)
ScanGetTagsThreatOnly(r, ok) ==
    /\ req[r].pc = "scan_tags"
    /\ LET o == objects[req[r].sid]
       IN Commit(r,
            IF ~ok \/ ~o.exists THEN [req[r] EXCEPT !.pc = "scan_err"]
            ELSE IF o.tag = NoTag THEN Finish(r, "OK")
            ELSE IF o.tag # "THREATS_FOUND" THEN [req[r] EXCEPT !.pc = "scan_clean"]
            ELSE [req[r] EXCEPT !.pc = "scan_inf", !.tag = o.tag])
    /\ UNCHANGED <<now, ticks, store, minted, gone, nextTok, ghost>>

\* scanResult.ts 68-87: GetObjectTagging and the branch on the tag.
ScanGetTags(r, ok) ==
    /\ req[r].pc = "scan_tags"
    /\ LET o == objects[req[r].sid]
       IN Commit(r,
            IF ~ok \/ ~o.exists THEN [req[r] EXCEPT !.pc = "scan_err"]
            ELSE IF o.tag = NoTag THEN Finish(r, "OK")
            ELSE IF o.tag = CleanTag THEN [req[r] EXCEPT !.pc = "scan_clean"]
            ELSE [req[r] EXCEPT !.pc = "scan_inf", !.tag = o.tag])
    /\ UNCHANGED <<now, ticks, store, minted, gone, nextTok, ghost>>

\* updateFileRecord: "SET scanStatus, scanDate, scanResult" without a
\* condition, so a missing item is created with these attributes alone.
Updated(rec, status, result) ==
    IF rec.exists THEN [rec EXCEPT !.scanStatus = status, !.scanResult = result]
    ELSE [NoFile EXCEPT !.exists = TRUE, !.scanStatus = status, !.scanResult = result]

\* scanResult.ts 88-94.
ScanClean(r, ok) ==
    /\ req[r].pc = "scan_clean"
    /\ files' = IF ok THEN [files EXCEPT ![req[r].sid] = Updated(@, "clean", @.scanResult)]
                ELSE files
    /\ Commit(r,
            IF ok THEN Finish(r, "OK") ELSE [req[r] EXCEPT !.pc = "scan_err"])
    /\ UNCHANGED <<now, ticks, objects, tokens, rl, gen, minted, gone, nextTok, ghost>>

\* scanResult.ts 95-108.
ScanInfected(r, ok) ==
    /\ req[r].pc = "scan_inf"
    /\ files' = IF ok THEN [files EXCEPT ![req[r].sid] = Updated(@, "infected", req[r].tag)]
                ELSE files
    /\ Commit(r,
            [req[r] EXCEPT !.pc = IF ok THEN "scan_del" ELSE "scan_err"])
    /\ UNCHANGED <<now, ticks, objects, tokens, rl, gen, minted, gone, nextTok, ghost>>

\* scanResult.ts 110-119.
ScanDelete(r, ok) ==
    /\ req[r].pc = "scan_del"
    /\ objects' = IF ok THEN [objects EXCEPT ![req[r].sid].exists = FALSE,
                                             ![req[r].sid].tag = NoTag]
                  ELSE objects
    /\ Commit(r,
            IF ok THEN [Finish(r, "OK") EXCEPT !.tag = NoTag]
            ELSE [req[r] EXCEPT !.pc = "scan_err"])
    /\ UNCHANGED <<now, ticks, files, tokens, rl, gen, minted, gone, nextTok, ghost>>

\* (mutation: a failure of the error-status write is thrown in place of the
\* original failure)
ScanErrorReplaced(r, ok) ==
    /\ req[r].pc = "scan_err"
    /\ files' = IF ok THEN [files EXCEPT ![req[r].sid] = Updated(@, "error", "error")]
                ELSE files
    /\ Commit(r, [Finish(r, IF ok THEN "THROWN" ELSE "UPDATE_THROWN") EXCEPT !.tag = NoTag])
    /\ UNCHANGED <<now, ticks, objects, tokens, rl, gen, minted, gone, nextTok, ghost>>

\* scanResult.ts 121-136: best-effort "error" status, then rethrow.
ScanError(r, ok) ==
    /\ req[r].pc = "scan_err"
    /\ files' = IF ok THEN [files EXCEPT ![req[r].sid] = Updated(@, "error", "error")]
                ELSE files
    /\ Commit(r, [Finish(r, "THROWN") EXCEPT !.tag = NoTag])
    /\ UNCHANGED <<now, ticks, objects, tokens, rl, gen, minted, gone, nextTok, ghost>>

\* ---------------------------------------------------- environment
\* Time passes.
Tick(d) ==
    /\ ticks < MaxTicks
    /\ now' = now + d
    /\ ticks' = ticks + 1
    /\ UNCHANGED <<store, req, last, minted, gone, nextTok, ghost>>

\* The table's TTL (timeToLiveAttribute expiresAt) removes expired items.
TTLFile(s) ==
    /\ files[s].exists /\ files[s].full /\ files[s].expiresAt < now
    /\ files' = [files EXCEPT ![s] = NoFile]
    /\ UNCHANGED <<now, ticks, objects, tokens, rl, gen, req, last, minted, gone, nextTok, ghost>>

TTLToken(k) ==
    /\ tokens[k].exists /\ tokens[k].expiresAt < now
    /\ tokens' = [tokens EXCEPT ![k] = NoToken]
    /\ UNCHANGED <<now, ticks, files, objects, rl, gen, req, last, minted, gone, nextTok, ghost>>

TTLRl(p) ==
    /\ rl[p].exists /\ rl[p].hasCount /\ rl[p].expiresAt < now
    /\ rl' = [rl EXCEPT ![p] = NoRl]
    /\ UNCHANGED <<now, ticks, files, objects, tokens, gen, req, last, minted, gone, nextTok, ghost>>

TTLGen(p) ==
    /\ gen[p].exists /\ gen[p].expiresAt < now
    /\ gen' = [gen EXCEPT ![p] = NoGen]
    /\ UNCHANGED <<now, ticks, files, objects, tokens, rl, req, last, minted, gone, nextTok, ghost>>

\* ------------------------------------------------- specifications
\* Download requests client c has made in its current throttle window.
Load(c) ==
    LET g == gen[<<"download", c>>]
    IN IF g.exists /\ g.windowStart >= now - DOWNLOAD_WINDOW THEN g.count ELSE 0

\* File-info requests source address c has made in its current window.
InfoLoad(c) ==
    LET g == gen[<<"fileinfo", c>>]
    IN IF g.exists /\ g.windowStart >= now - INFO_WINDOW THEN g.count ELSE 0

Oks == BOOLEAN

\* The two-phase download of unprotected files, with time and TTL expiry.
TokenFiles == {"A"}
TokenSteps == {1, TOKEN_MINUTES * 60}

NextToken ==
    \/ \E s \in TokenFiles : ticks = 0 /\ Upload(s, FALSE)
    \/ \E r \in Reqs, s \in TokenFiles \cup {BadId} :
            /\ Load("c1") < TokenBudget
            /\ DownloadStart(r, s, "c1", NoHeader, "none")
    \/ \E r \in Reqs, k \in TokenInputs, s \in TokenFiles, c \in Clients :
            RedeemStart(r, k, s, c, NoHeader)
    \/ \E r \in Reqs, ok \in Oks : GenericGet(r, ok)
    \/ \E r \in Reqs, ok \in Oks : GenericPut(r, ok)
    \/ \E r \in Reqs, ok \in Oks : GenericInc(r, ok)
    \/ \E r \in Reqs, ok \in Oks : GetFile(r, ok)
    \/ \E r \in Reqs, ok \in Oks : CreateToken(r, ok)
    \/ \E r \in Reqs, ok \in Oks : TokGet(r, ok)
    \/ \E r \in Reqs, ok \in Oks : TokUpdate(r, ok)
    \/ \E r \in Reqs, ok \in Oks : GetFile2(r, ok)
    \/ \E r \in Reqs, ok \in Oks : IncCount(r, ok)
    \/ \E d \in TokenSteps : Tick(d)
    \/ \E k \in TokenIds : TTLToken(k)
    \/ \E p \in GenKinds \X Clients : TTLGen(p)

SpecToken == Init /\ [][NextToken]_vars

\* The password gate of one protected file, for one client address.
RateFiles == {"A"}
RateSteps == {1, BLOCK_DURATION, ATTEMPT_WINDOW}
RateReqs == 1..RateSlots

NextRate ==
    \/ \E s \in RateFiles : ticks = 0 /\ Upload(s, TRUE)
    \/ \E r \in RateReqs, s \in RateFiles, pw \in Passwords :
            /\ Load("c1") < RateBudget
            /\ DownloadStart(r, s, "c1", NoHeader, pw)
    \/ \E r \in RateReqs, s \in RateFiles, pw \in Passwords :
            DeleteStart(r, s, "c1", NoHeader, pw)
    \/ \E r \in RateReqs, ok \in Oks : GenericGet(r, ok)
    \/ \E r \in RateReqs, ok \in Oks : GenericPut(r, ok)
    \/ \E r \in RateReqs, ok \in Oks : GenericInc(r, ok)
    \/ \E r \in RateReqs, ok \in Oks : GetFile(r, ok)
    \/ \E r \in RateReqs, ok \in Oks : RLGet(r, ok)
    \/ \E r \in RateReqs, ok \in Oks : RLBlock(r, ok)
    \/ \E r \in RateReqs, ok \in Oks : VerifyRecord(r, ok)
    \/ \E r \in RateReqs, ok \in Oks : CreateToken(r, ok)
    \/ \E r \in RateReqs, ok \in Oks : DelObject(r, ok)
    \/ \E r \in RateReqs, ok \in Oks : DelRecord(r, ok)
    \/ \E d \in RateSteps : Tick(d)
    \/ \E p \in RateFiles \X {"c1"} : TTLRl(p)

SpecRate == Init /\ [][NextRate]_vars

\* File-info and the two download steps around the expiry of a file.
ExpiryFiles == {"A"}
ExpirySteps == {1, EXPIRATION_HOURS * 3600}
ExpiryReqs == 1..ExpirySlots

NextExpiry ==
    \/ \E s \in ExpiryFiles : ticks = 0 /\ Upload(s, FALSE)
    \/ \E r \in ExpiryReqs, s \in ExpiryFiles :
            /\ InfoLoad("c1") < ExpiryBudget
            /\ InfoStart(r, s, "c1")
    \/ \E r \in ExpiryReqs, s \in ExpiryFiles :
            /\ Load("c1") < ExpiryBudget
            /\ DownloadStart(r, s, "c1", NoHeader, "none")
    \/ \E r \in ExpiryReqs, k \in TokenIds, s \in ExpiryFiles :
            RedeemStart(r, k, s, "c1", NoHeader)
    \/ \E r \in ExpiryReqs, ok \in Oks : GenericGet(r, ok)
    \/ \E r \in ExpiryReqs, ok \in Oks : GenericPut(r, ok)
    \/ \E r \in ExpiryReqs, ok \in Oks : GenericInc(r, ok)
    \/ \E r \in ExpiryReqs, ok \in Oks : GetFile(r, ok)
    \/ \E r \in ExpiryReqs, ok \in Oks : CreateToken(r, ok)
    \/ \E r \in ExpiryReqs, ok \in Oks : TokGet(r, ok)
    \/ \E r \in ExpiryReqs, ok \in Oks : TokUpdate(r, ok)
    \/ \E r \in ExpiryReqs, ok \in Oks : GetFile2(r, ok)
    \/ \E r \in ExpiryReqs, ok \in Oks : IncCount(r, ok)
    \/ \E d \in ExpirySteps : Tick(d)
    \/ \E s \in ExpiryFiles : TTLFile(s)

SpecExpiry == Init /\ [][NextExpiry]_vars

\* Downloads against the scan status of a file. File "A" is a record of
\* type FileRecord that awaits its scan result; file "B" is uploaded,
\* stored, tagged by the scanner and processed.
WaitingStatuses == {"pending", "scanning"}
ScannedFiles == {"B"}

InitGate ==
    /\ now = 0
    /\ ticks = 0
    /\ \E st \in WaitingStatuses :
            files = [s \in FileIds |->
                        IF s = "A"
                        THEN [exists |-> TRUE, full |-> TRUE, uploadedAt |-> 0,
                              expiresAt |-> EXPIRATION_HOURS * 3600,
                              hasPw |-> FALSE, downloadCount |-> 0,
                              scanStatus |-> st, scanResult |-> NoTag]
                        ELSE NoFile]
    /\ objects = [s \in FileIds |->
                    IF s = "A" THEN [exists |-> TRUE, tag |-> NoTag, put |-> TRUE]
                    ELSE NoObject]
    /\ tokens = [k \in TokenIds |-> NoToken]
    /\ rl = [p \in FileIds \X Clients |-> NoRl]
    /\ gen = [p \in GenKinds \X Clients |-> NoGen]
    /\ req = [r \in Reqs |-> IdleReq]
    /\ last = NoSummary
    /\ minted = {"A"}
    /\ gone = {}
    /\ events = {}
    /\ nextTok = 1
    /\ consumed = [k \in TokenIds |-> 0]
    /\ consumedAt = [k \in TokenIds |-> -1]
    /\ handleAt = [k \in TokenIds |-> -1]
    /\ handles = [s \in FileIds |-> 0]

NextGate ==
    \/ \E s \in ScannedFiles : Upload(s, FALSE)
    \/ \E s \in ScannedFiles : ClientPut(s)
    \/ \E s \in ScannedFiles, v \in TagValues : ScannerTag(s, v)
    \/ \E r \in Reqs, s \in ScannedFiles : ScanStart(r, s)
    \/ \E r \in Reqs, ok \in Oks : ScanGetTags(r, ok)
    \/ \E r \in Reqs, ok \in Oks : ScanClean(r, ok)
    \/ \E r \in Reqs, ok \in Oks : ScanInfected(r, ok)
    \/ \E r \in Reqs, ok \in Oks : ScanDelete(r, ok)
    \/ \E r \in Reqs, ok \in Oks : ScanError(r, ok)
    \/ \E r \in Reqs, s \in FileIds :
            /\ Load("c1") < GateBudget
            /\ DownloadStart(r, s, "c1", NoHeader, "none")
    \/ \E r \in Reqs, k \in TokenIds, s \in FileIds :
            RedeemStart(r, k, s, "c1", NoHeader)
    \/ \E r \in Reqs, ok \in Oks : GenericGet(r, ok)
    \/ \E r \in Reqs, ok \in Oks : GenericPut(r, ok)
    \/ \E r \in Reqs, ok \in Oks : GenericInc(r, ok)
    \/ \E r \in Reqs, ok \in Oks : GetFile(r, ok)
    \/ \E r \in Reqs, ok \in Oks : CreateToken(r, ok)
    \/ \E r \in Reqs, ok \in Oks : TokGet(r, ok)
    \/ \E r \in Reqs, ok \in Oks : TokUpdate(r, ok)
    \/ \E r \in Reqs, ok \in Oks : GetFile2(r, ok)
    \/ \E r \in Reqs, ok \in Oks : IncCount(r, ok)

SpecGate == InitGate /\ [][NextGate]_vars

\* The owner's delete against the scan of the same object and the requests
\* that follow it, for one unprotected file.
DeleteFiles == {"A"}

NextDelete ==
    \/ \E s \in DeleteFiles : Upload(s, FALSE)
    \/ \E s \in DeleteFiles : ClientPut(s)
    \/ \E s \in DeleteFiles, v \in TagValues : ScannerTag(s, v)
    \/ \E r \in Reqs, s \in DeleteFiles : ScanStart(r, s)
    \/ \E r \in Reqs, ok \in Oks : ScanGetTags(r, ok)
    \/ \E r \in Reqs, ok \in Oks : ScanClean(r, ok)
    \/ \E r \in Reqs, ok \in Oks : ScanInfected(r, ok)
    \/ \E r \in Reqs, ok \in Oks : ScanDelete(r, ok)
    \/ \E r \in Reqs, ok \in Oks : ScanError(r, ok)
    \/ \E r \in Reqs, s \in DeleteFiles : DeleteStart(r, s, "c1", NoHeader, "none")
    \/ \E r \in Reqs, ok \in Oks : DelObject(r, ok)
    \/ \E r \in Reqs, ok \in Oks : DelRecord(r, ok)
    \/ \E r \in Reqs, s \in DeleteFiles :
            /\ InfoLoad("c1") < DeleteBudget
            /\ InfoStart(r, s, "c1")
    \/ \E r \in Reqs, s \in DeleteFiles :
            /\ Load("c1") < DeleteBudget
            /\ DownloadStart(r, s, "c1", NoHeader, "none")
    \/ \E r \in Reqs, ok \in Oks : GenericGet(r, ok)
    \/ \E r \in Reqs, ok \in Oks : GenericPut(r, ok)
    \/ \E r \in Reqs, ok \in Oks : GenericInc(r, ok)
    \/ \E r \in Reqs, ok \in Oks : GetFile(r, ok)
    \/ \E r \in Reqs, ok \in Oks : CreateToken(r, ok)

SpecDelete == Init /\ [][NextDelete]_vars

\* Concurrent password attempts of one client on one protected file.
BruteFiles == {"A"}
BrutePasswords == {"good", "bad"}

NextBrute ==
    \/ \E s \in BruteFiles : Upload(s, TRUE)
    \/ \E r \in Reqs, s \in BruteFiles, pw \in BrutePasswords :
            DeleteStart(r, s, "c1", NoHeader, pw)
    \/ \E r \in Reqs, ok \in Oks : GetFile(r, ok)
    \/ \E r \in Reqs, ok \in Oks : RLGet(r, ok)
    \/ \E r \in Reqs, ok \in Oks : RLBlock(r, ok)
    \/ \E r \in Reqs, ok \in Oks : VerifyRecord(r, ok)
    \/ \E r \in Reqs, ok \in Oks : DelObject(r, ok)
    \/ \E r \in Reqs, ok \in Oks : DelRecord(r, ok)

SpecBrute == Init /\ [][NextBrute]_vars

\* Redemption of a token by requests from either source address, with or
\* without an X-Forwarded-For header. Tokens are issued to requests from
\* source "c1" that carry no header, so the clientIp stored in a token is
\* the source address of the request it was issued to.
OriginFiles == {"A"}
OriginHeaders == {NoHeader, "c1"}

NextOrigin ==
    \/ \E s \in OriginFiles : Upload(s, FALSE)
    \/ \E r \in Reqs, s \in OriginFiles :
            /\ Load("c1") < OriginBudget
            /\ DownloadStart(r, s, "c1", NoHeader, "none")
    \/ \E r \in Reqs, k \in TokenIds, s \in OriginFiles, c \in Clients,
          h \in OriginHeaders :
            RedeemStart(r, k, s, c, h)
    \/ \E r \in Reqs, ok \in Oks : GenericGet(r, ok)
    \/ \E r \in Reqs, ok \in Oks : GenericPut(r, ok)
    \/ \E r \in Reqs, ok \in Oks : GenericInc(r, ok)
    \/ \E r \in Reqs, ok \in Oks : GetFile(r, ok)
    \/ \E r \in Reqs, ok \in Oks : CreateToken(r, ok)
    \/ \E r \in Reqs, ok \in Oks : TokGet(r, ok)
    \/ \E r \in Reqs, ok \in Oks : TokUpdate(r, ok)
    \/ \E r \in Reqs, ok \in Oks : GetFile2(r, ok)
    \/ \E r \in Reqs, ok \in Oks : IncCount(r, ok)

SpecOrigin == Init /\ [][NextOrigin]_vars

\* Password attempts and downloads of one source address that sends its
\* requests with or without an X-Forwarded-For header of its choosing.
SpoofFiles == {"A"}
SpoofHeaders == {NoHeader, "c2"}
SpoofReqs == 1..SpoofSlots

NextSpoof ==
    \/ \E s \in SpoofFiles : Upload(s, TRUE)
    \/ \E r \in SpoofReqs, s \in SpoofFiles, h \in SpoofHeaders, pw \in BrutePasswords :
            /\ Load(clientIpOf("c1", h)) < SpoofBudget
            /\ DownloadStart(r, s, "c1", h, pw)
    \/ \E r \in SpoofReqs, s \in SpoofFiles, h \in SpoofHeaders, pw \in BrutePasswords :
            DeleteStart(r, s, "c1", h, pw)
    \/ \E r \in SpoofReqs, s \in SpoofFiles :
            /\ InfoLoad("c1") < SpoofBudget
            /\ InfoStart(r, s, "c1")
    \/ \E r \in SpoofReqs, ok \in Oks : GenericGet(r, ok)
    \/ \E r \in SpoofReqs, ok \in Oks : GenericPut(r, ok)
    \/ \E r \in SpoofReqs, ok \in Oks : GenericInc(r, ok)
    \/ \E r \in SpoofReqs, ok \in Oks : GetFile(r, ok)
    \/ \E r \in SpoofReqs, ok \in Oks : RLGet(r, ok)
    \/ \E r \in SpoofReqs, ok \in Oks : RLBlock(r, ok)
    \/ \E r \in SpoofReqs, ok \in Oks : VerifyRecord(r, ok)
    \/ \E r \in SpoofReqs, ok \in Oks : CreateToken(r, ok)
    \/ \E r \in SpoofReqs, ok \in Oks : DelObject(r, ok)
    \/ \E r \in SpoofReqs, ok \in Oks : DelRecord(r, ok)

SpecSpoof == Init /\ [][NextSpoof]_vars

\* The scan-result processor on the tag events of uploaded objects; an
\* event may be delivered more than once, and invocations may overlap.
ScanFiles == {"A"}
ScanTagValues == TagValues \cup {"UNSUPPORTED", "FAILED"}

NextScan ==
    \/ \E s \in ScanFiles : Upload(s, FALSE)
    \/ \E s \in ScanFiles : ClientPut(s)
    \/ \E s \in ScanFiles, v \in ScanTagValues : ScannerTag(s, v)
    \/ \E r \in Reqs, s \in ScanFiles : ScanStart(r, s)
    \/ \E r \in Reqs, ok \in Oks : ScanGetTags(r, ok)
    \/ \E r \in Reqs, ok \in Oks : ScanClean(r, ok)
    \/ \E r \in Reqs, ok \in Oks : ScanInfected(r, ok)
    \/ \E r \in Reqs, ok \in Oks : ScanDelete(r, ok)
    \/ \E r \in Reqs, ok \in Oks : ScanError(r, ok)

SpecScan == Init /\ [][NextScan]_vars

\* File-info requests of one source address against the generic throttle,
\* all within one window (no time passes), up to and beyond its limit.
ThrottleFiles == {"A"}

NextThrottle ==
    \/ \E r \in Reqs, s \in ThrottleFiles : InfoStart(r, s, "c1")
    \/ \E r \in Reqs, ok \in Oks : GenericGet(r, ok)
    \/ \E r \in Reqs, ok \in Oks : GenericPut(r, ok)
    \/ \E r \in Reqs, ok \in Oks : GenericInc(r, ok)
    \/ \E r \in Reqs, ok \in Oks : GetFile(r, ok)

SpecThrottle == Init /\ [][NextThrottle]_vars

\* Requests of every kind with well-formed and malformed share ids and
\* tokens, for one unprotected file.
ValidateFiles == {"A"}
ValidateIds == ValidateFiles \cup {BadId, BadCharsId}
ValidateTokens == TokenIds \cup {BadToken, BadCharsToken}
ValidateReqs == 1..ValidateSlots

NextValidate ==
    \/ \E s \in ValidateFiles : Upload(s, FALSE)
    \/ \E r \in ValidateReqs, s \in ValidateIds :
            /\ InfoLoad("c1") < ValidateBudget
            /\ InfoStart(r, s, "c1")
    \/ \E r \in ValidateReqs, s \in ValidateIds :
            /\ Load("c1") < ValidateBudget
            /\ DownloadStart(r, s, "c1", NoHeader, "none")
    \/ \E r \in ValidateReqs, s \in ValidateIds :
            DeleteStart(r, s, "c1", NoHeader, "none")
    \/ \E r \in ValidateReqs, k \in ValidateTokens, s \in ValidateIds :
            RedeemStart(r, k, s, "c1", NoHeader)
    \/ \E r \in ValidateReqs, ok \in Oks : GenericGet(r, ok)
    \/ \E r \in ValidateReqs, ok \in Oks : GenericPut(r, ok)
    \/ \E r \in ValidateReqs, ok \in Oks : GenericInc(r, ok)
    \/ \E r \in ValidateReqs, ok \in Oks : GetFile(r, ok)
    \/ \E r \in ValidateReqs, ok \in Oks : CreateToken(r, ok)
    \/ \E r \in ValidateReqs, ok \in Oks : TokGet(r, ok)
    \/ \E r \in ValidateReqs, ok \in Oks : TokUpdate(r, ok)
    \/ \E r \in ValidateReqs, ok \in Oks : GetFile2(r, ok)
    \/ \E r \in ValidateReqs, ok \in Oks : IncCount(r, ok)
    \/ \E r \in ValidateReqs, ok \in Oks : DelObject(r, ok)
    \/ \E r \in ValidateReqs, ok \in Oks : DelRecord(r, ok)

SpecValidate == Init /\ [][NextValidate]_vars

\* The owner's delete of one unprotected file, with store failures, and
\* the two download steps before and after it.
DanglingFiles == {"A"}
DanglingReqs == 1..DanglingSlots

NextDangling ==
    \/ \E s \in DanglingFiles : Upload(s, FALSE)
    \/ \E s \in DanglingFiles : ClientPut(s)
    \/ \E r \in DanglingReqs, s \in DanglingFiles :
            DeleteStart(r, s, "c1", NoHeader, "none")
    \/ \E r \in DanglingReqs, s \in DanglingFiles :
            /\ Load("c1") < DanglingBudget
            /\ DownloadStart(r, s, "c1", NoHeader, "none")
    \/ \E r \in DanglingReqs, k \in TokenIds, s \in DanglingFiles :
            RedeemStart(r, k, s, "c1", NoHeader)
    \/ \E r \in DanglingReqs, ok \in Oks : GenericGet(r, ok)
    \/ \E r \in DanglingReqs, ok \in Oks : GenericPut(r, ok)
    \/ \E r \in DanglingReqs, ok \in Oks : GenericInc(r, ok)
    \/ \E r \in DanglingReqs, ok \in Oks : GetFile(r, ok)
    \/ \E r \in DanglingReqs, ok \in Oks : CreateToken(r, ok)
    \/ \E r \in DanglingReqs, ok \in Oks : TokGet(r, ok)
    \/ \E r \in DanglingReqs, ok \in Oks : TokUpdate(r, ok)
    \/ \E r \in DanglingReqs, ok \in Oks : GetFile2(r, ok)
    \/ \E r \in DanglingReqs, ok \in Oks : IncCount(r, ok)
    \/ \E r \in DanglingReqs, ok \in Oks : DelObject(r, ok)
    \/ \E r \in DanglingReqs, ok \in Oks : DelRecord(r, ok)

SpecDangling == Init /\ [][NextDangling]_vars

\* ---- the scan processor on arbitrary object keys
\* The table and the bucket are keyed by strings: here they also hold the
\* items and objects under the fourth segment of a malformed key.
KeyFiles == {"A"}
KeyIds == FileIds \cup {BadId, BadCharsId}
ScanKeys == [parts : {4, 5}, sid : KeyFiles \cup {BadId, BadCharsId}]

InitKeys ==
    /\ now = 0
    /\ ticks = 0
    /\ files = [s \in KeyIds |-> NoFile]
    /\ objects = [s \in KeyIds |-> NoObject]
    /\ tokens = [k \in TokenIds |-> NoToken]
    /\ rl = [p \in FileIds \X Clients |-> NoRl]
    /\ gen = [p \in GenKinds \X Clients |-> NoGen]
    /\ req = [r \in Reqs |-> IdleReq]
    /\ last = NoSummary
    /\ minted = {}
    /\ gone = {}
    /\ events = {}
    /\ nextTok = 1
    /\ consumed = [k \in TokenIds |-> 0]
    /\ consumedAt = [k \in TokenIds |-> -1]
    /\ handleAt = [k \in TokenIds |-> -1]
    /\ handles = [s \in FileIds |-> 0]

NextKeys ==
    \/ \E s \in KeyFiles : Upload(s, FALSE)
    \/ \E s \in KeyFiles : ClientPut(s)
    \/ \E s \in KeyFiles, v \in TagValues : ScannerTag(s, v)
    \/ \E r \in Reqs, k \in ScanKeys : ScanEvent(r, k)
    \/ \E r \in Reqs, ok \in Oks : ScanGetTags(r, ok)
    \/ \E r \in Reqs, ok \in Oks : ScanClean(r, ok)
    \/ \E r \in Reqs, ok \in Oks : ScanInfected(r, ok)
    \/ \E r \in Reqs, ok \in Oks : ScanDelete(r, ok)
    \/ \E r \in Reqs, ok \in Oks : ScanError(r, ok)

SpecKeys == InitKeys /\ [][NextKeys]_vars

\* ---- the owner's delete of one stored, password-protected file, with
\* store failures
KeptFiles == {"A"}

NextKept ==
    \/ \E s \in KeptFiles : Upload(s, TRUE)
    \/ \E s \in KeptFiles : ClientPut(s)
    \/ \E r \in Reqs, s \in KeptFiles, pw \in BrutePasswords :
            DeleteStart(r, s, "c1", NoHeader, pw)
    \/ \E r \in Reqs, ok \in Oks : GetFile(r, ok)
    \/ \E r \in Reqs, ok \in Oks : RLGet(r, ok)
    \/ \E r \in Reqs, ok \in Oks : RLBlock(r, ok)
    \/ \E r \in Reqs, ok \in Oks : VerifyRecord(r, ok)
    \/ \E r \in Reqs, ok \in Oks : DelObject(r, ok)
    \/ \E r \in Reqs, ok \in Oks : DelRecord(r, ok)

SpecKept == Init /\ [][NextKept]_vars

\* ---- redemptions whose request path names another file than the one the
\* token was issued for
BindingFiles == {"A", "B"}

NextBinding ==
    \/ \E s \in BindingFiles : Upload(s, FALSE)
    \/ \E r \in Reqs, s \in BindingFiles :
            /\ Load("c1") < BindingBudget
            /\ DownloadStart(r, s, "c1", NoHeader, "none")
    \/ \E r \in Reqs, k \in TokenIds, s \in BindingFiles :
            /\ tokens[k].exists /\ s # tokens[k].sid
            /\ RedeemStart(r, k, s, "c1", NoHeader)
    \/ \E r \in Reqs, ok \in Oks : GenericGet(r, ok)
    \/ \E r \in Reqs, ok \in Oks : GenericPut(r, ok)
    \/ \E r \in Reqs, ok \in Oks : GenericInc(r, ok)
    \/ \E r \in Reqs, ok \in Oks : GetFile(r, ok)
    \/ \E r \in Reqs, ok \in Oks : CreateToken(r, ok)
    \/ \E r \in Reqs, ok \in Oks : TokGet(r, ok)
    \/ \E r \in Reqs, ok \in Oks : TokUpdate(r, ok)
    \/ \E r \in Reqs, ok \in Oks : GetFile2(r, ok)
    \/ \E r \in Reqs, ok \in Oks : IncCount(r, ok)

SpecBinding == Init /\ [][NextBinding]_vars

\* ---- a client locked out of one protected file at time 0 that keeps
\* sending requests while time passes; failed attempts are recorded at
\* time 0 only, and time always advances
LockoutFiles == {"A"}
LockoutReqs == 1..LockoutSlots

\* Time passes, a quarter of an hour at a time.
Pass(d) ==
    /\ ticks < LockoutTicks
    /\ now' = now + d
    /\ ticks' = ticks + 1
    /\ UNCHANGED <<store, req, last, minted, gone, nextTok, ghost>>

NextLockout ==
    \/ \E s \in LockoutFiles : ticks = 0 /\ Upload(s, TRUE)
    \/ \E r \in LockoutReqs, s \in LockoutFiles, pw \in BrutePasswords :
            /\ verifyPassword(pw) \/ ticks = 0
            /\ DeleteStart(r, s, "c1", NoHeader, pw)
    \/ \E r \in LockoutReqs, ok \in Oks : GetFile(r, ok)
    \/ \E r \in LockoutReqs, ok \in Oks : RLGet(r, ok)
    \/ \E r \in LockoutReqs, ok \in Oks : RLBlock(r, ok)
    \/ \E r \in LockoutReqs, ok \in Oks :
            /\ verifyPassword(req[r].pw) \/ ticks = 0
            /\ VerifyRecord(r, ok)
    \/ \E r \in LockoutReqs, ok \in Oks : DelObject(r, ok)
    \/ \E r \in LockoutReqs, ok \in Oks : DelRecord(r, ok)
    \/ Pass(BLOCK_DURATION)
    \/ \E p \in LockoutFiles \X {"c1"} : TTLRl(p)

SpecLockout == Init /\ [][NextLockout]_vars /\ WF_vars(Pass(BLOCK_DURATION))

\* ----------------------------------------------------- C1, C2
\* A redemption of token k that has read the token and not yet returned.
Redeeming(r, k) ==
    req[r].kind = "dl2" /\ req[r].tok = k /\ req[r].pc \in {"tok_get", "tok_upd"}

\* C1 (part): a redemption that reaches the store when the token is already
\* marked used ends in that step without consuming it, with VALIDATION_ERROR
\* (STORAGE_ERROR when its own store call failed).
LoserRejected ==
    \A r \in Reqs, k \in TokenIds :
        (Redeeming(r, k) /\ tokens[k].used /\ req'[r] # req[r])
            => /\ req'[r].pc = "idle"
               /\ last'.kind = "dl2"
               /\ last'.resp \in {"VALIDATION_ERROR", "STORAGE_ERROR"}
               /\ consumed' = consumed

\* C1 (part): the used flag of a token never returns to false.
UsedIsStable ==
    \A k \in TokenIds :
        (tokens[k].exists /\ tokens[k].used)
            => (tokens'[k].used \/ ~tokens'[k].exists)

\* C1 (part): a winning redemption is the only one past the consumption.
OneWinner ==
    \A k \in TokenIds :
        /\ consumed[k] <= 1
        /\ Cardinality({r \in Reqs : req[r].kind = "dl2" /\ req[r].tok = k
                          /\ req[r].pc \in {"get_file2", "inc_count"}}) <= consumed[k]
        /\ (consumed[k] = 1 /\ tokens[k].exists) => tokens[k].used

\* C1: token single use. Under every interleaving of redemption requests at
\* most one validateAndConsumeToken returns valid for a token, every other
\* redemption is rejected, and used goes false->true at most once and never
\* back, whatever happens to the later steps of the winning redemption.
C1_TokenSingleUse ==
    /\ []OneWinner
    /\ [][LoserRejected]_vars
    /\ [][UsedIsStable]_vars

\* C1 witness: two redemptions of one token have both passed the read of
\* the unused token; one has consumed it, the other is about to fail.
C1_Witness ==
    \E k \in TokenIds, r, q \in Reqs :
        /\ r # q
        /\ consumed[k] = 1
        /\ req[r].kind = "dl2" /\ req[r].tok = k /\ req[r].pc = "get_file2"
        /\ req[q].kind = "dl2" /\ req[q].tok = k /\ req[q].pc = "tok_upd"

\* C2 (part): a token lives TOKEN_MINUTES after its creation.
TokenLifetime ==
    \A k \in TokenIds :
        tokens[k].exists => tokens[k].expiresAt = tokens[k].createdAt + 300

\* C2: token expiry. expiresAt = createdAt + 5 minutes; no token is marked
\* used, and no transfer handle is issued from it, later than its expiresAt,
\* also when time advances between the read and the conditional write.
C2_TokenExpiry ==
    /\ TokenLifetime
    /\ \A k \in TokenIds :
        tokens[k].exists =>
            /\ consumedAt[k] <= tokens[k].expiresAt
            /\ handleAt[k] <= tokens[k].expiresAt

\* ----------------------------------------------------- C5 .. C9
\* Invocation r takes the step it is waiting at.
Stepped(r, pc) == req[r].pc = pc /\ req'[r] # req[r]

\* Invocation r has returned in this step.
Returned(r) == req[r].pc # "idle" /\ req'[r].pc = "idle"

\* Whether the store accepted the recordAttempt write of this step.
SavedAfter(r) == IF req'[r].pc = "idle" THEN last'.saved ELSE req'[r].saved

\* A record with MAX_ATTEMPTS failures whose last attempt is inside the window.
CountedOut(rec, t) ==
    /\ rec.exists /\ rec.hasCount
    /\ rec.attempts >= MAX_ATTEMPTS
    /\ rec.lastAttempt >= t - ATTEMPT_WINDOW

\* A record whose lockout is in the future.
LockActive(rec, t) == rec.exists /\ rec.hasBlock /\ rec.blockedUntil > t

\* A record whose last attempt is older than the window.
Stale(rec, t) == rec.exists /\ rec.hasCount /\ rec.lastAttempt < t - ATTEMPT_WINDOW

\* The request is denied without the password having been verified.
DeniedUnverified(r) ==
    /\ Returned(r)
    /\ last'.resp = "RATE_LIMITED"
    /\ last'.ver = "none"
    /\ ~last'.rlOk

\* C5 (part): every recorded failed attempt adds one to the count, from 0
\* for a pair without a record.
FailureCounts ==
    \A r \in Reqs :
        (Stepped(r, "verify") /\ ~verifyPassword(req[r].pw) /\ SavedAfter(r))
            => /\ rl'[RlKey(r)].attempts = rl[RlKey(r)].attempts + 1
               /\ rl'[RlKey(r)].lastAttempt = now
               /\ last'.resp = "INVALID_PASSWORD"

\* C5 (part): the check on a counted-out record never allows; it goes on to
\* write the lockout (or fails closed).
CountedOutLocks ==
    \A r \in Reqs :
        (Stepped(r, "rl_get") /\ CountedOut(rl[RlKey(r)], now))
            => \/ DeniedUnverified(r)
               \/ req'[r].pc = "rl_block" /\ req'[r].t = now /\ ~req'[r].rlOk

\* C5 (part): the lockout write denies, and sets blockedUntil to the time
\* of the check plus BLOCK_DURATION when the store accepts it.
LockWritten ==
    \A r \in Reqs :
        Stepped(r, "rl_block")
            => /\ DeniedUnverified(r)
               /\ ~last'.rlErr
                    => /\ rl'[RlKey(r)].hasBlock
                       /\ rl'[RlKey(r)].blockedUntil = req[r].t + 900

\* C5 (part): while the lockout is in the future every check denies.
LockedDenies ==
    \A r \in Reqs :
        (Stepped(r, "rl_get") /\ LockActive(rl[RlKey(r)], now))
            => DeniedUnverified(r)

\* C5: rate limiter lockout. Failed attempts count up from a fresh pair;
\* with 5 of them inside the window the next checkRateLimit answers
\* allowed = false and sets the lockout to the time of the check plus 15
\* minutes; while the lockout is in the future every attempt is denied
\* with RATE_LIMITED and the password is not verified.
C5_Lockout ==
    /\ [][FailureCounts]_vars
    /\ [][CountedOutLocks]_vars
    /\ [][LockWritten]_vars
    /\ [][LockedDenies]_vars

\* C5 witness: five failures are on record, the lockout is written and in
\* force, one attempt has been denied and a further one is at the check.
C5_Witness ==
    \E r \in Reqs :
        /\ req[r].pc = "rl_get"
        /\ rl[RlKey(r)].attempts = MAX_ATTEMPTS
        /\ LockActive(rl[RlKey(r)], now)
        /\ last.resp = "RATE_LIMITED" /\ ~last.rlErr

\* C6: fail closed. A store failure inside checkRateLimit (the read or the
\* lockout write) or inside checkRateLimitGeneric ends the request with a
\* denial: no request goes on after it, none verifies a password, and a
\* request for a protected file is at the token or deletion steps only
\* after an allowed check and a valid password.
C6_FailClosed ==
    /\ \A r \in Reqs : ~req[r].rlErr /\ ~req[r].genErr
    /\ last.rlErr =>
            last.resp = "RATE_LIMITED" /\ last.ver = "none" /\ ~last.rlOk
    /\ last.genErr =>
            last.resp \in {"RATE_LIMITED", "VALIDATION_ERROR"} /\ last.ver = "none"
    /\ \A r \in Reqs :
            (req[r].hasPw /\ req[r].pc \in {"mk_token", "del_obj", "del_rec"})
                => req[r].rlOk /\ req[r].ver = "valid"

\* C6 witness: a request for a protected file has been denied because a
\* store operation of checkRateLimit failed.
C6_Witness ==
    /\ last.rlErr
    /\ last.kind \in {"dl1", "del"}
    /\ last.resp = "RATE_LIMITED"
    /\ files["A"].exists /\ files["A"].hasPw

\* C7: window reset. On a record whose lastAttempt is older than the window
\* checkRateLimit and recordAttempt act as they do on no record: the check
\* allows, and a recorded failure leaves a count of 1.
C7_WindowReset ==
    [][\A r \in Reqs :
        /\ (Stepped(r, "rl_get") /\ Stale(rl[RlKey(r)], now))
                => \/ req'[r].pc = "verify"
                   \/ Returned(r) /\ last'.rlErr
        /\ (Stepped(r, "verify") /\ Stale(rl[RlKey(r)], now) /\ SavedAfter(r))
                => rl'[RlKey(r)] = IF verifyPassword(req[r].pw)
                                      THEN ResetItem(now)
                                      ELSE FailedItem(NoRl, now)]_vars

\* C8: recovery after lockout. Once the lockout of a pair locked by 5 wrong
\* passwords has elapsed, a download request with the correct password
\* passes the check (unless the store fails) and goes on to verification.
C8_RecoveryAfterLockout ==
    [][\A r \in Reqs :
        (/\ Stepped(r, "rl_get")
         /\ req[r].kind = "dl1" /\ verifyPassword(req[r].pw)
         /\ rl[RlKey(r)].exists /\ rl[RlKey(r)].hasBlock
         /\ rl[RlKey(r)].attempts >= MAX_ATTEMPTS
         /\ rl[RlKey(r)].blockedUntil <= now)
            => \/ req'[r].pc = "verify"
               \/ Returned(r) /\ last'.rlErr]_vars

\* The record is reset: no attempts, and a check on it allows with the
\* full number of attempts remaining.
ResetDone(rec, t) ==
    /\ rec.attempts = 0
    /\ ~LockActive(rec, t)
    /\ RateDecision(rec, t) = "allow"
    /\ Remaining(rec, t) = MAX_ATTEMPTS

EarlyResponses == {"VALIDATION_ERROR", "RATE_LIMITED", "STORAGE_ERROR"}

C4_ScanGateInfected ==
    (/\ last.kind \in {"dl1", "dl2"}
     /\ last.pre = "infected"
     /\ last.resp \notin EarlyResponses)
        => last.resp = "ACCESS_DENIED"

\* C10: expiry is uniform. A file-info, download step-1 or redemption
\* request that arrives when the file's expiresAt is in the past is
\* answered FILE_NOT_FOUND (unless it is rejected before the record is
\* read, or the store fails).
C10_ExpiryUniform ==
    (/\ last.kind \in {"info", "dl1", "dl2"}
     /\ last.pre = "expired"
     /\ last.resp \notin EarlyResponses)
        => last.resp = "FILE_NOT_FOUND"

\* ----------------------------------------------------- C11
\* C11 (part): a request is at the verification, or past it, only after
\* checkRateLimit allowed it; past it only with the right password.
GateOrder ==
    \A r \in Reqs :
        /\ req[r].pc = "verify" => req[r].rlOk
        /\ req[r].ver # "none" => req[r].rlOk
        /\ req[r].ver = "valid" => verifyPassword(req[r].pw)
        /\ (req[r].kind \in {"dl1", "del"} /\ files[req[r].sid].hasPw
                /\ req[r].pc \in {"mk_token", "del_obj", "del_rec"})
              => req[r].rlOk /\ req[r].ver = "valid"

\* C11 (part): a returned request has verified a password only after an
\* allowed check.
GateOrderReturned == last.ver # "none" => last.rlOk

\* C11 (part): a token for a protected file is put, and its object and
\* record are deleted, only by a request that passed the gate.
GatedEffects ==
    \A s \in FileIds :
        (files[s].hasPw /\ (nextTok' # nextTok \/ objects'[s] # objects[s]
                              \/ ~files'[s].exists))
            => \E r \in Reqs :
                    /\ req[r].sid = s
                    /\ req[r].pc \in {"mk_token", "del_obj", "del_rec"}
                    /\ req'[r] # req[r]
                    /\ req[r].rlOk /\ req[r].ver = "valid"
                    /\ verifyPassword(req[r].pw)

\* C11: password gate. For a record with a passwordHash a download token
\* is issued, and a deletion performed, only in a request in which
\* checkRateLimit allowed and verifyPassword returned true for the supplied
\* password; verifyPassword is not called after a denying check.
C11_PasswordGate ==
    /\ []GateOrder
    /\ []GateOrderReturned
    /\ [][GatedEffects]_vars

\* C11 witness: a token has been issued for a protected file to a request
\* that passed the check and the verification; the attempt is on record.
C11_Witness ==
    /\ files["A"].exists /\ files["A"].hasPw
    /\ nextTok > 1
    /\ last.kind = "dl1" /\ last.resp = "OK"
    /\ last.rlOk /\ last.ver = "valid"
    /\ rl[<<"A", "c1">>].exists

\* ----------------------------------------------------- C12
\* C12 (part): a token is put by a step-1 request, for the file it asked
\* for, and that step returns no transfer handle.
TokenFromStepOne ==
    nextTok' # nextTok
        => \E r \in Reqs :
                /\ req[r].kind = "dl1" /\ req[r].pc = "mk_token"
                /\ Returned(r)
                /\ last'.kind = "dl1" /\ last'.resp = "OK"
                /\ tokens'[nextTok].sid = req[r].sid
                /\ handles' = handles /\ handleAt' = handleAt

\* C12 (part): the request that consumes a token goes on with the file the
\* token was issued for.
ConsumedForItsFile ==
    \A r \in Reqs :
        (Stepped(r, "tok_upd") /\ req'[r].pc = "get_file2")
            => /\ req[r].kind = "dl2"
               /\ req'[r].sid = tokens[req[r].tok].sid
               /\ consumed'[req[r].tok] = consumed[req[r].tok] + 1

\* C12 (part): a transfer handle is returned only by the last step of a
\* redemption, for the file of the token it consumed.
HandleFromRedemption ==
    handles' # handles
        => \E r \in Reqs :
                /\ req[r].kind = "dl2" /\ req[r].pc = "inc_count"
                /\ Returned(r)
                /\ last'.resp = "OK"
                /\ handles' = [handles EXCEPT ![req[r].sid] = @ + 1]
                /\ handleAt' = [handleAt EXCEPT ![req[r].tok] = now]

\* C12 (part): a redemption past the consumption holds a token that was
\* issued and that it consumed; a handle comes from a consumed token.
PastConsumption ==
    /\ \A r \in Reqs :
            (req[r].kind = "dl2" /\ req[r].pc \in {"get_file2", "inc_count"})
                => req[r].tok \in 1..(nextTok - 1) /\ consumed[req[r].tok] >= 1
    /\ \A r \in Reqs :
            req[r].kind = "dl1" => ~(req[r].pc \in {"tok_get", "tok_upd", "get_file2",
                                                     "inc_count"})
    /\ \A k \in TokenIds :
            /\ handleAt[k] >= 0 => consumed[k] >= 1
            /\ consumed[k] >= 1 => k < nextTok

RECURSIVE ConsumedUpTo(_)
ConsumedUpTo(n) == IF n = 0 THEN 0 ELSE consumed[n] + ConsumedUpTo(n - 1)

\* C13 (part): the counter of a record equals the number of transfer
\* handles returned for the file, and is at most the number of tokens
\* consumed.
CountIsHandles ==
    \A s \in FileIds :
        (files[s].exists /\ files[s].full)
            => /\ files[s].downloadCount = handles[s]
               /\ files[s].downloadCount <= ConsumedUpTo(MaxTokens)

\* C13 (part): the counter starts at 0 and never decreases.
CountGrows ==
    \A s \in FileIds :
        /\ (~files[s].exists /\ files'[s].exists) => files'[s].downloadCount = 0
        /\ (files[s].exists /\ files'[s].exists)
                => files'[s].downloadCount >= files[s].downloadCount

ObjectDeletedFirst ==
    \A r \in Reqs :
        (req[r].kind = "del" /\ Stepped(r, "del_obj"))
            => \/ /\ req'[r].pc = "del_rec"
                  /\ ~objects'[req[r].sid].exists
                  /\ last' = last
               \/ /\ Returned(r)
                  /\ last'.resp = "STORAGE_ERROR"
                  /\ objects' = objects /\ files' = files

\* C14 (part): a delete request returns success only from the record
\* deletion, when the store accepted it; otherwise it returns an error.
SuccessAfterBoth ==
    \A r \in Reqs :
        (req[r].kind = "del" /\ Returned(r))
            => \/ /\ last'.resp = "OK"
                  /\ req[r].pc = "del_rec"
                  /\ ~files'[req[r].sid].exists
                  /\ req[r].sid \in gone'
               \/ /\ last'.resp # "OK"
                  /\ files' = files
                  /\ gone' = gone

\* C14 (part): the record deletion is reached only through the object
\* deletion.
RecordAfterObject ==
    \A r \in Reqs : req[r].pc = "del_rec" => req[r].kind = "del" /\ req[r].full

\* C14: delete success. A delete request reports success only when the
\* object deletion and then the record deletion were both accepted; when
\* either fails the response is an error.
C14_DeleteSuccess ==
    /\ []RecordAfterObject
    /\ [][ObjectDeletedFirst]_vars
    /\ [][SuccessAfterBoth]_vars

\* C14 witness: a delete of a stored file has reported success; object and
\* record are gone.
C14_Witness ==
    /\ last.kind = "del" /\ last.resp = "OK"
    /\ "A" \in gone
    /\ objects["A"].put /\ ~objects["A"].exists
    /\ ~files["A"].exists

\* ----------------------------------------------------- C15, C19
\* C15: delete is final. A file-info, download step-1 or redemption request
\* that arrives after a delete request for its share id has reported
\* success is answered FILE_NOT_FOUND (unless it is rejected before the
\* record is read, or the store fails), whatever the other handlers do.
C15_DeleteFinal ==
    (/\ last.kind \in {"info", "dl1", "dl2"}
     /\ last.late
     /\ last.resp \notin EarlyResponses)
        => last.resp = "FILE_NOT_FOUND"

\* C19: expiry invariant. Every file record in the table has expiresAt =
\* uploadedAt + 48 hours.
C19_ExpiryInvariant ==
    \A s \in FileIds :
        files[s].exists
            => /\ files[s].full
               /\ files[s].expiresAt = files[s].uploadedAt + 48 * 3600

\* ----------------------------------------------------- C16
\* C16: brute-force bound. The count of failed verifications of a pair
\* since its last reset never exceeds MAX_ATTEMPTS: a 6th wrong guess is
\* not evaluated.
C16_BruteForceBound ==
    \A p \in FileIds \X Clients :
        rl[p].exists => rl[p].attempts <= 5

\* ----------------------------------------------------- C17
\* C17: lockout holds. A lockout that is in force stays in force until its
\* blockedUntil has passed: no step removes or shortens it.
C17_LockoutHolds ==
    [][\A p \in FileIds \X Clients :
        (LockActive(rl[p], now) /\ rl[p].blockedUntil > now')
            => /\ LockActive(rl'[p], now')
               /\ rl'[p].blockedUntil >= rl[p].blockedUntil]_vars

\* ----------------------------------------------------- C18
\* C18: initial scan state. A record created by Upload starts with
\* scanStatus = pending and downloadCount = 0.
C18_InitialScanState ==
    [][\A s \in FileIds :
        (~files[s].exists /\ files'[s].exists /\ minted' # minted)
            => /\ files'[s].scanStatus = "pending"
               /\ files'[s].downloadCount = 0]_vars

\* ----------------------------------------------------- C20
\* C20: token bound to client. A redemption that has consumed a token, and
\* goes on to issue the transfer handle, comes from the source address the
\* token was issued to.
C20_TokenBoundToClient ==
    \A r \in Reqs :
        (/\ req[r].kind = "dl2"
         /\ req[r].pc \in {"get_file2", "inc_count"}
         /\ tokens[req[r].tok].exists)
            => req[r].src = tokens[req[r].tok].ip

\* ----------------------------------------------------- C21
\* C21: client address cannot be chosen by the client. Whatever headers a
\* request carries, the password rate-limit record and the throttle
\* counter it reads and writes are those of its source address.
C21_SourceAddressKeys ==
    [][\A r \in Reqs :
        (req[r].pc # "idle" /\ req'[r] # req[r])
            => /\ \A p \in FileIds \X Clients :
                    p # <<req[r].sid, req[r].src>> => rl'[p] = rl[p]
               /\ \A p \in GenKinds \X Clients :
                    p[2] # req[r].src => gen'[p] = gen[p]]_vars

\* ----------------------------------------------------- C22
\* No invocation of the scan-result processor is at work on file s.
ScanIdle(s) ==
    \A r \in Reqs : ~(req[r].kind = "scan" /\ req[r].sid = s /\ ~Idle(r))

\* C22: infected objects are removed. Once the processor has finished, a
\* record with scanStatus = infected has no object in storage.
C22_InfectedRemoved ==
    \A s \in FileIds :
        (files[s].exists /\ files[s].scanStatus = "infected" /\ ScanIdle(s))
            => ~objects[s].exists

\* ----------------------------------------------------- C23
\* C23: generic throttle bound. Every allowed call adds one to the count of
\* its key, so within one window the count, and with it the number of
\* calls answered allowed, never exceeds maxRequests.
C23_ThrottleBound ==
    \A p \in GenKinds \X Clients :
        gen[p].exists
            => gen[p].count <= (IF p[1] = "download" THEN 20 ELSE 30)

\* ----------------------------------------------------- C24
\* C24: throttle error code. A request that ends inside the generic
\* throttle (the limit is reached, or the throttle failed closed) is
\* answered RATE_LIMITED, on the file-info path as on the download path.
C24_ThrottleCode ==
    [][\A r \in Reqs :
        (/\ req[r].pc \in {"gen_get", "gen_put", "gen_inc"}
         /\ Returned(r))
            => last'.resp = "RATE_LIMITED"]_vars

\* ----------------------------------------------------- C25
\* The statuses of a record whose object is still expected in storage.
LiveStatuses == {"absent", "pending", "scanning", "clean"}

\* C25 (part): an invocation is at the deletion of the object only when the
\* record has been marked.
MarkedBeforeDelete ==
    \A r \in Reqs :
        (req[r].kind = "scan" /\ req[r].pc = "scan_del")
            => /\ files[req[r].sid].exists
               /\ files[req[r].sid].scanStatus \notin LiveStatuses

\* C25 (part): an object the processor has deleted belongs to a record that
\* does not show pending, scanning or clean (nor is without a status).
NoDanglingRecord ==
    \A s \in FileIds :
        (objects[s].put /\ ~objects[s].exists)
            => /\ files[s].exists
               /\ files[s].scanStatus \notin LiveStatuses

\* C25: scan ordering. The processor writes scanStatus = infected before it
\* deletes the object; under every interleaving with download requests
\* there is no state in which the processor has deleted the object while
\* the record shows pending, scanning or clean.
C25_ScanOrdering == MarkedBeforeDelete /\ NoDanglingRecord

\* C25 witness: the processor has deleted the object of an infected file
\* while a download request for that file is about to read its record.
C25_Witness ==
    \E r \in Reqs :
        /\ req[r].kind = "dl1" /\ req[r].sid = "B" /\ req[r].pc = "get_file"
        /\ objects["B"].put /\ ~objects["B"].exists
        /\ files["B"].scanStatus = "infected"

\* ----------------------------------------------------- C26
\* C26 (part): the branch taken on the tags read. Without a scan-status tag
\* the invocation ends and nothing is written.
TagBranch(r) ==
    LET o == objects[req[r].sid]
    IN (Stepped(r, "scan_tags") /\ req'[r].pc # "scan_err")
            => /\ files' = files /\ objects' = objects
               /\ o.tag = NoTag => (Returned(r) /\ last'.resp = "OK")
               /\ o.tag = CleanTag => req'[r].pc = "scan_clean"
               /\ o.tag \notin {NoTag, CleanTag}
                    => req'[r].pc = "scan_inf" /\ req'[r].tag = o.tag

\* C26 (part): the clean update, when the store accepts it.
CleanKept(r) ==
    LET s == req[r].sid
    IN (Stepped(r, "scan_clean") /\ Returned(r))
            => /\ last'.resp = "OK"
               /\ files'[s].exists /\ files'[s].scanStatus = "clean"
               /\ files'[s].scanResult = files[s].scanResult
               /\ objects' = objects

\* C26 (part): the infected update, when the store accepts it, and the
\* deletion that follows it.
InfectedDeleted(r) ==
    LET s == req[r].sid
    IN /\ (Stepped(r, "scan_inf") /\ req'[r].pc # "scan_err")
            => /\ req'[r].pc = "scan_del"
               /\ req[r].tag \notin {NoTag, CleanTag}
               /\ files'[s].exists /\ files'[s].scanStatus = "infected"
               /\ files'[s].scanResult = req[r].tag
               /\ objects' = objects
       /\ (Stepped(r, "scan_del") /\ Returned(r))
            => /\ last'.resp = "OK"
               /\ ~objects'[s].exists
               /\ files' = files

\* C26: scan result mapping. No scan-status tag: record and object
\* unchanged. NO_THREATS_FOUND: scanStatus = clean, object kept. Every other
\* value: scanStatus = infected, the raw status in scanResult, object
\* deleted.
C26_ScanMapping ==
    [][\A r \in Reqs : TagBranch(r) /\ CleanKept(r) /\ InfectedDeleted(r)]_vars

\* C26 witness: an object tagged with a value that is neither clean nor a
\* detected threat has been processed: record infected, object deleted.
C26_Witness ==
    /\ last.kind = "scan" /\ last.resp = "OK"
    /\ files["A"].scanStatus = "infected"
    /\ files["A"].scanResult = "UNSUPPORTED"
    /\ objects["A"].put /\ ~objects["A"].exists

\* ----------------------------------------------------- C27
\* The steps of the processor inside its try block.
ScanSteps == {"scan_tags", "scan_clean", "scan_inf", "scan_del"}

\* C27 (part): a step that throws writes nothing and hands over to the
\* catch block; no step that throws ends the invocation normally.
ThrowIsCaught(r) ==
    LET s == req[r].sid
    IN /\ (req[r].pc \in ScanSteps /\ req'[r] # req[r] /\ req'[r].pc = "scan_err")
            => files' = files /\ objects' = objects
       /\ (req[r].pc \in ScanSteps /\ Returned(r))
            => /\ last'.resp = "OK"
               /\ \/ req[r].pc = "scan_tags" /\ objects[s].exists /\ objects[s].tag = NoTag
                  \/ req[r].pc = "scan_clean" /\ files'[s].scanStatus = "clean"
                  \/ req[r].pc = "scan_del" /\ ~objects'[s].exists

\* C27 (part): the catch block tries to write scanStatus = error and then
\* throws the failure it caught, whether or not the write succeeded.
Rethrown(r) ==
    LET s == req[r].sid
    IN Stepped(r, "scan_err")
            => /\ Returned(r)
               /\ last'.kind = "scan" /\ last'.resp = "THROWN"
               /\ objects' = objects
               /\ \/ files' = files
                  \/ files'[s].exists /\ files'[s].scanStatus = "error"

\* C27: scan exception handling. When a step of the processing throws, the
\* processor attempts to set scanStatus = error and rethrows the original
\* failure; a failure of that write neither replaces nor suppresses it.
C27_ScanException ==
    [][\A r \in Reqs : ThrowIsCaught(r) /\ Rethrown(r)]_vars

\* C27 witness: the deletion of an infected object failed and the write of
\* the error status failed too; the invocation has thrown.
C27_Witness ==
    /\ last.kind = "scan" /\ last.resp = "THROWN"
    /\ files["A"].scanStatus = "infected"
    /\ objects["A"].exists
    /\ \A r \in Reqs : Idle(r)

\* ----------------------------------------------------- C28
\* C28: infected is terminal. A record whose scanStatus is infected keeps
\* that status under every later step.
C28_InfectedTerminal ==
    [][\A s \in FileIds :
        (files[s].exists /\ files[s].scanStatus = "infected")
            => (files'[s].exists /\ files'[s].scanStatus = "infected")]_vars

\* ----------------------------------------------------- C29
\* C29 (part): no request with a malformed share id or token gets past
\* the validation, so none of them reaches a store call (the well-formed
\* ids are FileIds, the well-formed tokens TokenIds).
OnlyValidInFlight ==
    \A r \in Reqs :
        /\ req[r].kind \in {"info", "dl1", "del"} => req[r].sid \in FileIds
        /\ req[r].kind = "dl2" => req[r].tok \in TokenIds

\* C29 (part): a request that is answered on arrival is answered
\* VALIDATION_ERROR and leaves the metadata store as it was.
RejectedOnArrival ==
    (req' = req /\ last' # last)
        => /\ last'.resp = "VALIDATION_ERROR"
           /\ files' = files /\ tokens' = tokens /\ rl' = rl /\ gen' = gen
           /\ objects' = objects

\* C29: validation before store access. A request whose share id fails
\* isValidShareId, or whose token fails isValidDownloadToken, is answered
\* VALIDATION_ERROR without a read or write of the metadata store.
C29_ValidationFirst == []OnlyValidInFlight /\ [][RejectedOnArrival]_vars

\* C29 witness: a file-info request was answered VALIDATION_ERROR although
\* the throttle was never consulted for its source address.
C29_Witness ==
    /\ last.kind = "info" /\ last.resp = "VALIDATION_ERROR" /\ ~last.genErr
    /\ ~gen[<<"fileinfo", "c1">>].exists
    /\ files["A"].exists
    /\ \A r \in Reqs : Idle(r)

\* ----------------------------------------------------- C30
\* C30 (part): a request without a password is never at the rate limiter,
\* the verifier, the token creation or the deletion of a protected file.
NoPasswordStopsEarly ==
    \A r \in Reqs :
        (/\ req[r].kind \in {"dl1", "del"}
         /\ req[r].pw = "none"
         /\ files[req[r].sid].exists /\ files[req[r].sid].hasPw)
            => req[r].pc \in {"gen_get", "gen_put", "gen_inc", "get_file"}

\* C30 (part): on reading the record of a protected, unexpired file the
\* request without a password returns INVALID_PASSWORD (STORAGE_ERROR when
\* the read failed); the rate-limit records and the tokens are unchanged.
PromptForPassword ==
    \A r \in Reqs :
        (/\ Stepped(r, "get_file")
         /\ req[r].kind \in {"dl1", "del"}
         /\ req[r].pw = "none"
         /\ files[req[r].sid].exists /\ files[req[r].sid].hasPw
         /\ files[req[r].sid].expiresAt >= now)
            => /\ Returned(r)
               /\ last'.resp \in {"INVALID_PASSWORD", "STORAGE_ERROR"}
               /\ last'.ver = "none" /\ ~last'.rlOk /\ ~last'.rlErr
               /\ rl' = rl /\ tokens' = tokens /\ nextTok' = nextTok
               /\ files' = files

\* C30: missing password. A download or delete request for a protected
\* file that carries no password returns INVALID_PASSWORD without a call of
\* the rate limiter or the verifier; the pair's rate-limit record is
\* unchanged and no token is issued.
C30_MissingPassword == []NoPasswordStopsEarly /\ [][PromptForPassword]_vars

\* C30 witness: a delete request without a password was answered
\* INVALID_PASSWORD while the pair has failed attempts on record.
C30_Witness ==
    /\ last.kind = "del" /\ last.resp = "INVALID_PASSWORD" /\ last.ver = "none"
    /\ files["A"].exists /\ files["A"].hasPw
    /\ rl[<<"A", "c1">>].exists /\ rl[<<"A", "c1">>].attempts = 2

\* ----------------------------------------------------- C31
\* C31: failed attempts are always counted. Every verification that fails
\* adds one to the attempts of the pair before INVALID_PASSWORD is
\* returned, also when the store fails while the attempt is recorded.
C31_AlwaysCounted ==
    [][\A r \in Reqs :
        (Stepped(r, "verify") /\ ~verifyPassword(req[r].pw))
            => /\ last'.resp = "INVALID_PASSWORD"
               /\ rl'[RlKey(r)].exists
               /\ rl'[RlKey(r)].attempts = rl[RlKey(r)].attempts + 1]_vars

\* ----------------------------------------------------- C32
\* C32: dangling record after a partial delete. Once the object of a file
\* has been removed, no transfer handle is issued for the file and its
\* downloadCount does not grow, whether or not the record was removed.
C32_DanglingRecord ==
    [][\A s \in FileIds :
        (objects[s].put /\ ~objects[s].exists)
            => /\ handles'[s] = handles[s]
               /\ files'[s].exists => files'[s].downloadCount = files[s].downloadCount]_vars

\* C33: the scan processor writes to the table only under a share id that
\* passes the share-id format validation (length and URL-safe characters);
\* an event with any other key is dropped and no item is written for it.
C33_KeyValidation ==
    \A s \in DOMAIN files : files[s].exists => isValidShareId(s)

\* C34: when the object deletion of a delete request fails, the request
\* returns STORAGE_ERROR and the record and the object are left as they
\* were; the record deletion is attempted only once the object is gone.
C34_DeleteErrorKeepsRecord ==
    [][\A r \in Reqs :
        Stepped(r, "del_obj")
            => /\ files' = files
               /\ \/ /\ req'[r].pc = "del_rec"
                     /\ ~objects'[req[r].sid].exists
                  \/ /\ Idle(r)'
                     /\ last'.resp = "STORAGE_ERROR"
                     /\ objects' = objects]_vars

\* A delete whose password was verified has returned STORAGE_ERROR while
\* the object is still stored: its object deletion failed, the record is
\* there.
C34_Witness ==
    /\ last.kind = "del" /\ last.ver = "valid" /\ last.resp = "STORAGE_ERROR"
    /\ objects["A"].put /\ objects["A"].exists
    /\ files["A"].exists /\ files["A"].full

\* C35: a redemption rejected because the token is unknown, expired or
\* bound to another client address returns an error and leaves every token
\* item as it was; nothing is consumed.
RejectionReasons ==
    {"Invalid download token", "Download token has expired", "Invalid request origin"}

C35_RejectedKeepsToken ==
    [][\A r \in Reqs :
        (/\ Stepped(r, "tok_get")
         /\ TokenCheck(tokens[req[r].tok], req[r].ip, now) \in RejectionReasons)
            => /\ Idle(r)'
               /\ last'.resp \in {"VALIDATION_ERROR", "STORAGE_ERROR"}
               /\ tokens' = tokens
               /\ consumed' = consumed]_vars

\* A redemption of an issued, unused and unexpired token has been refused:
\* it came from another client address, and the token is still unused.
C35_Witness ==
    /\ last.kind = "dl2" /\ last.resp = "VALIDATION_ERROR"
    /\ last.pre \notin {"nofile", "expired"}
    /\ \E k \in TokenIds :
            /\ tokens[k].exists /\ ~tokens[k].used /\ consumed[k] = 0
            /\ ~(tokens[k].expiresAt < now)

\* C36: a download handle is only ever issued for the file recorded in the
\* presented token when it was created, whatever share id the request path
\* carries; the counter of that file is the one incremented.
C36_TokenFileBinding ==
    [][\A s \in FileIds :
        handles'[s] # handles[s]
            => \E r \in Reqs :
                    /\ Stepped(r, "inc_count")
                    /\ tokens[req[r].tok].exists
                    /\ tokens[req[r].tok].sid = s
                    /\ files'[s].downloadCount = files[s].downloadCount + 1
                    /\ \A o \in FileIds \ {s} : files'[o] = files[o]]_vars

\* A redemption that named the other file in its path has returned a
\* handle: the handle is for the token's file and none exists for the other.
C36_Witness ==
    /\ last.kind = "dl2" /\ last.resp = "OK"
    /\ \E k \in TokenIds, o \in FileIds :
            /\ tokens[k].exists /\ tokens[k].used /\ o # tokens[k].sid
            /\ handles[tokens[k].sid] = 1
            /\ files[o].exists /\ handles[o] = 0 /\ files[o].downloadCount = 0

\* C37: a step of checkRateLimit or recordAttempt for a (file, client
\* address) pair writes at most the record of that pair: the records and
\* the decisions of all other pairs, the file records, the objects, the
\* tokens and the request counters are left as they were.
RateLimiterSteps == {"rl_get", "rl_block", "verify"}

C37_RateLimitIsolation ==
    [][\A r \in Reqs :
        (\E pc \in RateLimiterSteps : Stepped(r, pc))
            => /\ \A p \in DOMAIN rl :
                    p # <<req[r].sid, req[r].ip>>
                        => /\ rl'[p] = rl[p]
                           /\ RateDecision(rl'[p], now') = RateDecision(rl[p], now)
               /\ files' = files
               /\ objects' = objects
               /\ tokens' = tokens
               /\ gen' = gen]_vars

\* One client address is locked out of file A while the record of another
\* address for the same file shows a successful attempt and is allowed.
C37_Witness ==
    /\ rl[<<"A", "c1">>].hasBlock /\ rl[<<"A", "c1">>].blockedUntil > now
    /\ RateDecision(rl[<<"A", "c1">>], now) = "deny"
    /\ rl[<<"A", "c2">>].exists /\ rl[<<"A", "c2">>].hasCount
    /\ rl[<<"A", "c2">>].attempts = 0
    /\ RateDecision(rl[<<"A", "c2">>], now) = "allow"

\* C38: whenever checkRateLimit would deny a pair, and no further failed
\* attempt is recorded, it eventually allows the pair as time advances,
\* whatever denied requests the client sends in between.
Denied(p) == RateDecision(rl[p], now) # "allow"

C38_NoPermanentLockout ==
    \A p \in LockoutFiles \X {"c1"} : Denied(p) ~> ~Denied(p)

\* A denied request that arrived when the first lockout had run out, inside
\* the attempt window, renewed the lockout; time has advanced past it and
\* the counted-out record, still in the table, is allowed again.
C38_Witness ==
    LET rec == rl[<<"A", "c1">>]
    IN /\ rec.exists /\ rec.hasCount /\ rec.attempts >= MAX_ATTEMPTS
       /\ rec.hasBlock /\ rec.blockedUntil > BLOCK_DURATION
       /\ rec.blockedUntil <= now
       /\ ~Denied(<<"A", "c1">>)

====
